---- MODULE Spec2Model ----
(***************************************************************************)
(* A model of the WHOIS/RDAP resolution engine of next-whois-rade:         *)
(*   - the provider manager (rate limiter, round-robin rotation, failover),*)
(*   - the Redis-backed lookupWhoisWithCache and its caching policy,       *)
(*   - the multi-provider lookupWhois service (retry, parallel dispatch,   *)
(*     merge, in-memory cache),                                            *)
(*   - the distributed dispatch layer (forward to a sibling, fall back).   *)
(* Each component has its own specification over the shared variables.     *)
(***************************************************************************)
EXTENDS Integers, Sequences, FiniteSets, TLC

(***************************************************************************)
(* Bounds of the model.                                                    *)
(***************************************************************************)
\* Number of providers registered with the ProviderManager.
NProviders == 3
\* Number of execute() calls that may be in flight at the same time.
NCalls == 2
\* Quota of a RateLimiter (requests per window), scaled down.
RateLimit == 2
\* Length of a RateLimiter window in clock ticks, scaled down.
RateWindow == 1
\* The clock stops advancing here.
MaxNow == 2
\* Number of lookupWhoisWithCache() calls that may be in flight together.
NCacheCalls == 2
\* CacheService.maxKeys, scaled down.
MaxKeys == 2
\* The largest config.retries a caller passes.
MaxRetries == 3
\* How many distributedWhoisLookup calls a run makes.
NDistCalls == 2

Providers == 0 .. (NProviders - 1)
Calls == 1 .. NCalls
NoProvider == -1
NoError == "<none>"

\* Messages with which a provider's lookup() may reject.
LookupErrors == {"Timeout", "Domain or TLD not found"}
RateLimitedError == "No providers available (rate limited)"
AllFailedError == "All providers failed"

VARIABLES
  now,            \* Date.now(), in ticks
  currentIndex,   \* ProviderManager.currentIndex
  requests,       \* RateLimiter.requests of each provider
  startTime,      \* RateLimiter.startTime of each provider
  dispatched,     \* history: lookups dispatched to a provider since its last reset
  pc,             \* where each execute() call stands
  iter,           \* the loop variable i of each execute() call
  triedProviders, \* the Set triedProviders of each execute() call
  lastError,      \* the variable lastError of each execute() call
  current,        \* the provider whose lookup() the call awaits
  outcome,        \* how the call's promise settled
  skipped,        \* history: the providers the call found over quota
  attempts        \* history: the providers the call invoked and how each ended

VARIABLES
  lookupModule,   \* which lookupWhoisWithCache is deployed: "part_005" or "lookup.ts"
  redis,          \* the Redis store: key -> entry or NoEntry
  lwcPc,          \* where each lookupWhoisWithCache() call stands
  lwcDomain,      \* the argument domain of each call
  lwcReturned     \* what each call returned

VARIABLES
  serviceModule,  \* which lookupWhois is deployed: "part_011" or "whois-service.ts"
  nodeCache,      \* the entries of the CacheService, in insertion order
  svcPc,          \* where the lookupWhois() call stands
  svcArgs,        \* its arguments: domain, options.force, enabled providers, retries
  svcDomain,      \* its normalizedDomain
  task,           \* the queryProvider() call of each provider
  svcResult,      \* what the call returned
  svcCacheRead    \* history: whether the call has read the cache

pmVars == <<now, currentIndex, requests, startTime, dispatched, pc, iter,
            triedProviders, lastError, current, outcome, skipped, attempts>>

lwcVars == <<lookupModule, redis, lwcPc, lwcDomain, lwcReturned>>

VARIABLES
  isMain,         \* IS_MAIN_SERVER === "true"
  endpoints,      \* the endpoints parsed from WHOIS_API_ENDPOINTS
  clock,          \* Date.now(), in ms
  dPc,            \* where the distributedWhoisLookup() call stands
  dCall,          \* how many calls have been made; the current call's number
  dDomain,        \* its argument
  dEndpoint,      \* the endpoint it picked
  dSentAt,        \* when its request was sent
  dTimers,        \* the abort timers still pending
  dAborted,       \* the calls whose AbortController has been aborted
  dStatus,        \* the HTTP status received, 0 before any
  dForward,       \* how the forwarded call ended
  dLocal,         \* the lookupWhoisWithCache() call it awaits
  dLocalCalls,    \* how many times it has called lookupWhoisWithCache
  dResult         \* what the call returned

svcVars ==
  <<serviceModule, nodeCache, svcPc, svcArgs, svcDomain, task, svcResult, svcCacheRead>>

distVars == <<isMain, endpoints, clock, dPc, dCall, dDomain, dEndpoint, dSentAt,
              dTimers, dAborted, dStatus, dForward, dLocal, dLocalCalls, dResult>>

VARIABLES
  qProvider,      \* the socket provider queried: "tredis" or "native"
  qPc,            \* where the provider's query function stands
  qDomain,        \* its argument
  sock,           \* the state of the socket
  sData,          \* the text received so far
  sChunks,        \* the chunks received so far
  sTimer,         \* whether the timeout timer is armed
  sElapsed,       \* ticks since the query started
  sPromise,       \* the promise of queryTredisSocket / whoisLookup
  qResult         \* how the query function ended

sockVars ==
  <<qProvider, qPc, qDomain, sock, sData, sChunks, sTimer, sElapsed, sPromise, qResult>>

VARIABLES
  rdapModule,     \* which rdapLookup runs: "part_023" or "server.js"
  rPc,            \* where the rdapLookup() call stands
  rRedirects,     \* redirectCount of the request in flight
  rRequests,      \* how many https.get requests the call has issued
  rPromise,       \* the promise rdapLookup returned
  rIdle,          \* ms since the request's socket last saw activity
  rTimeoutEvent   \* whether the request has emitted 'timeout'

rdapVars == <<rdapModule, rPc, rRedirects, rRequests, rPromise, rIdle, rTimeoutEvent>>

VARIABLES
  mPc,            \* whether mergeWhoisData has been applied to mIn
  mIn,            \* the responses handed to mergeWhoisData
  mOut            \* what it returned

mrgVars == <<mPc, mIn, mOut>>

VARIABLES
  cPc,            \* whether parseRdapResponse has run on cIn
  cIn,            \* the cidr0_cidrs of the RDAP answer
  cOut            \* network.cidr of the result

cidrVars == <<cPc, cIn, cOut>>

VARIABLES
  kMax,           \* CacheService.maxKeys
  kOps,           \* how many operations the cache has served
  kLast           \* history: the last operation and its domain

cacheOpVars == <<kMax, kOps, kLast>>

VARIABLES
  eHealthy,       \* ApiSelector.endpoints[i].healthy, by index of the endpoint
  selCall         \* each call of ApiSelector.query: where it stands, what it sent

selVars == <<eHealthy, selCall>>

VARIABLES
  routeModule,          \* which route handles the requests
  rNow,                 \* Date.now()
  rateLimitMap,         \* ip -> { count, resetTime }
  captchaRateLimitMap,  \* ip -> { count, resetTime }
  rPending,             \* per ip, the requests that await verifyCaptcha
  rLast,                \* history: the last request handled and its answer
  hRate,                \* history: per ip, the rate window and its admissions
  hCaptcha              \* history: per ip, the captcha window and its requests

routeVars == <<routeModule, rNow, rateLimitMap, captchaRateLimitMap, rPending,
               rLast, hRate, hCaptcha>>

newVars == <<sockVars, rdapVars, mrgVars>>
moreVars == <<cidrVars, cacheOpVars, selVars, routeVars>>

vars == <<pmVars, lwcVars, svcVars, distVars, newVars, moreVars>>

(***************************************************************************)
(* RateLimiter                                                             *)
(***************************************************************************)
\* The window test of RateLimiter.check().
WindowElapsed(t, start) == t - start > RateWindow

\* A quota test that lets one request too many through.
UnderQuotaInclusive(req) == req <= RateLimit

\* The quota test of RateLimiter.check().
UnderQuota(req) == req < RateLimit

\* RateLimiter.check() of provider p at time t: the limiter after the call.
\* lim is [requests |-> function, startTime |-> function].
LimiterAfterCheck(lim, p, t) ==
  IF WindowElapsed(t, lim.startTime[p])
    THEN [requests  |-> [lim.requests  EXCEPT ![p] = 0],
          startTime |-> [lim.startTime EXCEPT ![p] = t]]
    ELSE lim

\* RateLimiter.increment() of provider p.
LimiterAfterIncrement(lim, p) ==
  [lim EXCEPT !.requests[p] = @ + 1]

(***************************************************************************)
(* ProviderManager.getNextProvider                                         *)
(***************************************************************************)
\* The rest of a scan that has read this.providers[p].
Inspected(p, rest) == [rest EXCEPT !.seen = <<p>> \o @]

\* A scan that gives up at the first provider over quota.
RECURSIVE ScanUntilOverQuota(_, _, _, _, _, _, _)
ScanUntilOverQuota(idx, start, looped, tried, lim, t, over) ==
  IF looped /\ idx = start
    THEN [provider |-> NoProvider, index |-> idx, limiter |-> lim, over |-> over,
          seen |-> <<>>]
    ELSE LET p    == idx
             next == (idx + 1) % NProviders
             chk  == LimiterAfterCheck(lim, p, t)
         IN  IF p \in tried
               THEN Inspected(p, ScanUntilOverQuota(next, start, looped \/ next = start,
                                                    tried, lim, t, over))
               ELSE IF chk.requests[p] < RateLimit
                 THEN [provider |-> p, index |-> next, limiter |-> chk, over |-> over,
                       seen |-> <<p>>]
                 ELSE [provider |-> NoProvider, index |-> next, limiter |-> chk,
                       over |-> over \cup {p}, seen |-> <<p>>]

\* The while loop: idx is this.currentIndex, start and looped the locals.
\* Yields the provider returned (or NoProvider), the pointer and the
\* limiters as the call leaves them, the providers whose isReady() was
\* false (over), and the providers the loop read, in order (seen).
RECURSIVE ScanProviders(_, _, _, _, _, _, _)
ScanProviders(idx, start, looped, tried, lim, t, over) ==
  IF looped /\ idx = start
    THEN [provider |-> NoProvider, index |-> idx, limiter |-> lim, over |-> over,
          seen |-> <<>>]
    ELSE LET p    == idx
             next == (idx + 1) % NProviders
             chk  == LimiterAfterCheck(lim, p, t)
         IN  IF p \in tried
               THEN Inspected(p, ScanProviders(next, start, looped \/ next = start,
                                               tried, lim, t, over))
               ELSE IF UnderQuota(chk.requests[p])
                 THEN [provider |-> p, index |-> next, limiter |-> chk, over |-> over,
                       seen |-> <<p>>]
                 ELSE Inspected(p, ScanProviders(next, start, looped \/ next = start,
                                                 tried, chk, t, over \cup {p}))

getNextProvider(tried) ==
  ScanProviders(currentIndex, currentIndex, FALSE, tried,
                [requests |-> requests, startTime |-> startTime], now, {})

(***************************************************************************)
(* ProviderManager.execute                                                 *)
(***************************************************************************)
Settled(kind, p, err) == [kind |-> kind, provider |-> p, error |-> err]
Unsettled == Settled("pending", NoProvider, NoError)

\* lookupWhois: the provider errors that its return value carries.  A result
\* is returned as {status, time, result}, a rejection as {status, time, error}
\* with the message of the error execute threw.
ReportedErrors(o) == IF o.kind = "rejected" THEN {o.error} ELSE {}

\* throw lastError || new Error("All providers failed")
FinalError(err) == IF err = NoError THEN AllFailedError ELSE err

\* A null provider reported as the generic failure, whatever was tried.
NoProviderErrorGeneric(tried, lastErr) == FinalError(lastErr)

\* The error thrown when getNextProvider returns null.
NoProviderError(tried, lastErr) ==
  IF tried = {} THEN RateLimitedError ELSE FinalError(lastErr)

\* triedProviders.add(provider.name)
TriedAfterForgets(tried, p) == tried
TriedAfter(tried, p) == tried \cup {p}

\* The call rejects; nothing of the manager changes.
ExecuteThrow(c, err, k, tried, lastErr) ==
  /\ pc' = [pc EXCEPT ![c] = "done"]
  /\ outcome' = [outcome EXCEPT ![c] = Settled("rejected", NoProvider, err)]
  /\ iter' = [iter EXCEPT ![c] = k]
  /\ triedProviders' = [triedProviders EXCEPT ![c] = tried]
  /\ lastError' = [lastError EXCEPT ![c] = lastErr]
  /\ current' = [current EXCEPT ![c] = NoProvider]

\* One pass of the for loop from its test up to the await of lookup(), or up
\* to the throw that ends the call.  k, tried and lastErr are the locals as
\* the pass finds them; log is the call's history so far.
ExecuteIteration(c, k, tried, lastErr, log) ==
  IF k >= NProviders
    THEN /\ ExecuteThrow(c, FinalError(lastErr), k, tried, lastErr)
         /\ attempts' = [attempts EXCEPT ![c] = log]
         /\ UNCHANGED <<currentIndex, requests, startTime, dispatched, skipped>>
    ELSE
      LET r == getNextProvider(tried)
          p == r.provider
      IN  /\ currentIndex' = r.index
          /\ skipped' = [skipped EXCEPT ![c] = @ \cup r.over]
          /\ startTime' = r.limiter.startTime
          /\ IF p = NoProvider
               THEN /\ requests' = r.limiter.requests
                    /\ dispatched' = [q \in Providers |->
                          IF r.limiter.startTime[q] # startTime[q] THEN 0
                          ELSE dispatched[q]]
                    /\ ExecuteThrow(c, NoProviderError(tried, lastErr), k, tried, lastErr)
                    /\ attempts' = [attempts EXCEPT ![c] = log]
               ELSE /\ requests' = LimiterAfterIncrement(r.limiter, p).requests
                    /\ dispatched' = [q \in Providers |->
                          (IF r.limiter.startTime[q] # startTime[q] THEN 0
                           ELSE dispatched[q]) + (IF q = p THEN 1 ELSE 0)]
                    /\ triedProviders' = [triedProviders EXCEPT ![c] = TriedAfter(tried, p)]
                    /\ pc' = [pc EXCEPT ![c] = "lookup"]
                    /\ current' = [current EXCEPT ![c] = p]
                    /\ iter' = [iter EXCEPT ![c] = k]
                    /\ lastError' = [lastError EXCEPT ![c] = lastErr]
                    /\ attempts' = [attempts EXCEPT ![c] =
                          Append(log, [provider |-> p, result |-> "pending", error |-> NoError])]
                    /\ outcome' = [outcome EXCEPT ![c] = Unsettled]

\* execute(domain) is called: the locals are set up and the first pass runs.
ExecuteBegin(c) ==
  /\ pc[c] = "idle"
  /\ ExecuteIteration(c, 0, {}, NoError, <<>>)
  /\ UNCHANGED <<now, lwcVars, svcVars, distVars, newVars, moreVars>>

\* The awaited lookup() resolves: execute returns its result.
LookupResolve(c) ==
  /\ pc[c] = "lookup"
  /\ pc' = [pc EXCEPT ![c] = "done"]
  /\ outcome' = [outcome EXCEPT ![c] = Settled("resolved", current[c], NoError)]
  /\ attempts' = [attempts EXCEPT ![c][Len(attempts[c])].result = "resolved"]
  /\ UNCHANGED <<now, currentIndex, requests, startTime, dispatched, iter,
                 triedProviders, lastError, current, skipped, lwcVars, svcVars, distVars, newVars, moreVars>>

\* The awaited lookup() rejects with err: the catch block, i++ and the next pass.
LookupReject(c, err) ==
  /\ pc[c] = "lookup"
  /\ ExecuteIteration(c, iter[c] + 1, triedProviders[c], err,
       [attempts[c] EXCEPT ![Len(attempts[c])] =
          [provider |-> current[c], result |-> "threw", error |-> err]])
  /\ UNCHANGED <<now, lwcVars, svcVars, distVars, newVars, moreVars>>

\* The caller has consumed the settled promise; the call's locals are gone.
ExecuteReturn(c) ==
  /\ pc[c] = "done"
  /\ pc' = [pc EXCEPT ![c] = "idle"]
  /\ iter' = [iter EXCEPT ![c] = 0]
  /\ triedProviders' = [triedProviders EXCEPT ![c] = {}]
  /\ lastError' = [lastError EXCEPT ![c] = NoError]
  /\ current' = [current EXCEPT ![c] = NoProvider]
  /\ outcome' = [outcome EXCEPT ![c] = Unsettled]
  /\ skipped' = [skipped EXCEPT ![c] = {}]
  /\ attempts' = [attempts EXCEPT ![c] = <<>>]
  /\ UNCHANGED <<now, currentIndex, requests, startTime, dispatched, lwcVars, svcVars, distVars, newVars, moreVars>>

\* Date.now() advances.
Tick ==
  /\ now < MaxNow
  /\ now' = now + 1
  /\ UNCHANGED <<currentIndex, requests, startTime, dispatched, pc, iter,
                 triedProviders, lastError, current, outcome, skipped, attempts,
                 lwcVars, svcVars, distVars, newVars, moreVars>>

PmVarsInit ==
  /\ now = 0
  /\ currentIndex = 0
  /\ requests = [p \in Providers |-> 0]
  /\ startTime = [p \in Providers |-> 0]
  /\ dispatched = [p \in Providers |-> 0]
  /\ pc = [c \in Calls |-> "idle"]
  /\ iter = [c \in Calls |-> 0]
  /\ triedProviders = [c \in Calls |-> {}]
  /\ lastError = [c \in Calls |-> NoError]
  /\ current = [c \in Calls |-> NoProvider]
  /\ outcome = [c \in Calls |-> Unsettled]
  /\ skipped = [c \in Calls |-> {}]
  /\ attempts = [c \in Calls |-> <<>>]

(***************************************************************************)
(* Strings: String.prototype.toLowerCase, trim and includes                *)
(***************************************************************************)
UpperCaseLetters == "ABCDEFGHIJKLMNOPQRSTUVWXYZ"
LowerCaseLetters == "abcdefghijklmnopqrstuvwxyz"

\* The characters of a string, as a set of one-character strings.
CharsOf(chars) == {SubSeq(chars, k, k) : k \in 1 .. Len(chars)}
UpperChars == CharsOf(UpperCaseLetters)
LowerChars == CharsOf(LowerCaseLetters)
LowerOf ==
  [ch \in UpperChars |->
     LET k == CHOOSE k \in 1 .. Len(UpperCaseLetters) : SubSeq(UpperCaseLetters, k, k) = ch
     IN  SubSeq(LowerCaseLetters, k, k)]

\* The lower-case form of the one-character string ch.
LowerChar(ch) == IF ch \in UpperChars THEN LowerOf[ch] ELSE ch

RECURSIVE toLowerCase(_)
toLowerCase(str) ==
  IF Len(str) = 0 THEN ""
  ELSE IF Len(str) = 1 THEN LowerChar(str)
  ELSE toLowerCase(SubSeq(str, 1, Len(str) \div 2))
       \o toLowerCase(SubSeq(str, Len(str) \div 2 + 1, Len(str)))

WhiteSpace == {" ", "\t", "\n", "\r"}

RECURSIVE trim(_)
trim(str) ==
  IF Len(str) = 0 THEN ""
  ELSE IF SubSeq(str, 1, 1) \in WhiteSpace THEN trim(SubSeq(str, 2, Len(str)))
  ELSE IF SubSeq(str, Len(str), Len(str)) \in WhiteSpace
    THEN trim(SubSeq(str, 1, Len(str) - 1))
  ELSE str

\* str.includes(needle)
includes(str, needle) ==
  \E k \in 1 .. (Len(str) - Len(needle) + 1) :
    SubSeq(str, k, k + Len(needle) - 1) = needle

(***************************************************************************)
(* The Redis helpers of @/lib/server/redis                                 *)
(***************************************************************************)
NoEntry == [present |-> FALSE]

\* The TTL setJsonRedisValue applies when the caller names none.
DefaultTtl == [kind |-> "default", seconds |-> 0]
ExplicitTtl(sec) == [kind |-> "explicit", seconds |-> sec]

getJsonRedisValue(store, key) == store[key]

setJsonRedisValue(store, key, value) ==
  [store EXCEPT ![key] = [present |-> TRUE, value |-> value, ttl |-> DefaultTtl]]

setJsonRedisValueWithTTL(store, key, value, sec) ==
  [store EXCEPT ![key] = [present |-> TRUE, value |-> value, ttl |-> ExplicitTtl(sec)]]

(***************************************************************************)
(* lookupWhois and lookupWhoisWithCache over Redis                         *)
(***************************************************************************)
NOT_FOUND_CACHE_TTL == 3600

\* The domains callers pass.
Domains == {"example.com", " Example.COM"}

\* Messages with which providerManager.execute may reject.
ExecuteErrors ==
  { "No providers available (rate limited)",
    "All providers failed",
    "Domain or TLD not found",
    "WHOIS lookup failed: connect ECONNREFUSED",
    "WHOIS connection error: host not found",
    "Timeout: whois server Not Found" }

\* What lookupWhois(domain) resolves with: it never rejects.
LookupSuccess == [status |-> TRUE, time |-> 1, result |-> "parsed", error |-> NoError]
LookupFailure(err) == [status |-> FALSE, time |-> 1, result |-> "", error |-> err]
LookupResults == {LookupSuccess} \cup {LookupFailure(e) : e \in ExecuteErrors}

\* The key under which each module caches a domain.
CacheKey(module, domain) ==
  IF module = "part_005" THEN "whois:" \o trim(toLowerCase(domain))
  ELSE "whois:" \o domain

Modules == {"part_005", "lookup.ts"}
RedisKeys == {CacheKey(m, d) : m \in Modules, d \in Domains}

isNotFoundError(result) ==
  /\ result.error # NoError
  /\ \/ includes(toLowerCase(result.error), "not found")
     \/ includes(toLowerCase(result.error), "domain or tld not found")

isTransientError(result) ==
  /\ result.error # NoError
  /\ \/ includes(toLowerCase(result.error), "timeout")
     \/ includes(toLowerCase(result.error), "rate limit")
     \/ includes(toLowerCase(result.error), "connection")
     \/ includes(toLowerCase(result.error), "refused")

\* The store after part_005's lookupWhoisWithCache has handled result.
StoreAfterLookup(store, key, result) ==
  IF result.status
    THEN setJsonRedisValue(store, key, result)
  ELSE IF isNotFoundError(result) /\ ~isTransientError(result)
    THEN setJsonRedisValueWithTTL(store, key, result, NOT_FOUND_CACHE_TTL)
  ELSE store

\* lookup.ts: const shouldCache = result.status || (... includes("not found"))
shouldCache(result) ==
  \/ result.status
  \/ (result.error # NoError /\ includes(toLowerCase(result.error), "not found"))

\* The store after lookup.ts's lookupWhoisWithCache has handled result.
StoreAfterLookupTs(store, key, result) ==
  IF shouldCache(result) THEN setJsonRedisValue(store, key, result) ELSE store

CacheCalls == 1 .. NCacheCalls
NoResult == [status |-> FALSE, time |-> 0, result |-> "", error |-> NoError,
             cached |-> FALSE, settled |-> FALSE]
Returned(result, time, cached) ==
  [status |-> result.status, time |-> time, result |-> result.result,
   error |-> result.error, cached |-> cached, settled |-> TRUE]

\* lookupWhoisWithCache(domain) is called: the cache is read; a hit returns.
LwcCall(r, domain) ==
  /\ lwcPc[r] = "idle"
  /\ lwcDomain' = [lwcDomain EXCEPT ![r] = domain]
  /\ LET cached == getJsonRedisValue(redis, CacheKey(lookupModule, domain))
     IN  IF cached.present
           THEN /\ lwcPc' = [lwcPc EXCEPT ![r] = "done"]
                /\ lwcReturned' = [lwcReturned EXCEPT ![r] = Returned(cached.value, 0, TRUE)]
           ELSE /\ lwcPc' = [lwcPc EXCEPT ![r] = "lookup"]
                /\ lwcReturned' = [lwcReturned EXCEPT ![r] = NoResult]
  /\ UNCHANGED <<lookupModule, redis>>

\* A caller other than distributedWhoisLookup calls lookupWhoisWithCache.
LwcBegin(r, domain) ==
  /\ LwcCall(r, domain)
  /\ UNCHANGED <<pmVars, svcVars, distVars, newVars, moreVars>>

\* The awaited lookupWhois() resolves with result: part_005 classifies it,
\* writes the cache and returns.
LwcLookupDone(r, result) ==
  /\ lwcPc[r] = "lookup"
  /\ lookupModule = "part_005"
  /\ redis' = StoreAfterLookup(redis, CacheKey(lookupModule, lwcDomain[r]), result)
  /\ lwcPc' = [lwcPc EXCEPT ![r] = "done"]
  /\ lwcReturned' = [lwcReturned EXCEPT ![r] = Returned(result, result.time, FALSE)]
  /\ UNCHANGED <<lookupModule, lwcDomain, pmVars, svcVars, distVars, newVars, moreVars>>

\* The same point in lookup.ts.
LwcLookupDoneTs(r, result) ==
  /\ lwcPc[r] = "lookup"
  /\ lookupModule = "lookup.ts"
  /\ redis' = StoreAfterLookupTs(redis, CacheKey(lookupModule, lwcDomain[r]), result)
  /\ lwcPc' = [lwcPc EXCEPT ![r] = "done"]
  /\ lwcReturned' = [lwcReturned EXCEPT ![r] = Returned(result, result.time, FALSE)]
  /\ UNCHANGED <<lookupModule, lwcDomain, pmVars, svcVars, distVars, newVars, moreVars>>

\* The caller has consumed the result.
LwcReturn(r) ==
  /\ lwcPc[r] = "done"
  /\ lwcPc' = [lwcPc EXCEPT ![r] = "idle"]
  /\ lwcReturned' = [lwcReturned EXCEPT ![r] = NoResult]
  /\ UNCHANGED <<lookupModule, redis, lwcDomain, pmVars, svcVars, distVars, newVars, moreVars>>

\* Redis drops an entry whose TTL has run out.
RedisExpire(key) ==
  /\ redis[key].present
  /\ redis' = [redis EXCEPT ![key] = NoEntry]
  /\ UNCHANGED <<lookupModule, lwcPc, lwcDomain, lwcReturned, pmVars, svcVars, distVars, newVars, moreVars>>

LwcVarsInit ==
  /\ lookupModule \in Modules
  /\ redis = [k \in RedisKeys |-> NoEntry]
  /\ lwcPc = [r \in CacheCalls |-> "idle"]
  /\ lwcDomain = [r \in CacheCalls |-> "example.com"]
  /\ lwcReturned = [r \in CacheCalls |-> NoResult]

(***************************************************************************)
(* domain-utils: normalizeDomain and isValidDomain                         *)
(***************************************************************************)
Digits == "0123456789"

DigitChars == CharsOf(Digits)
IsAlpha(ch) == ch \in LowerChars \/ ch \in UpperChars
IsAlnum(ch) == IsAlpha(ch) \/ ch \in DigitChars

startsWith(str, prefix) ==
  Len(str) >= Len(prefix) /\ SubSeq(str, 1, Len(prefix)) = prefix

\* str.split(sep), for a one-character separator.
RECURSIVE split(_, _)
split(str, sep) ==
  IF \E k \in 1 .. Len(str) : SubSeq(str, k, k) = sep
    THEN LET k == CHOOSE k \in 1 .. Len(str) :
                    /\ SubSeq(str, k, k) = sep
                    /\ \A j \in 1 .. (k - 1) : SubSeq(str, j, j) # sep
         IN  <<SubSeq(str, 1, k - 1)>> \o split(SubSeq(str, k + 1, Len(str)), sep)
    ELSE <<str>>

\* str.replace(/^prefix/, '')
StripPrefix(str, prefix) ==
  IF startsWith(str, prefix) THEN SubSeq(str, Len(prefix) + 1, Len(str)) ELSE str

normalizeDomain(domain) ==
  LET lowered    == trim(toLowerCase(domain))
      noProtocol == IF startsWith(lowered, "https://")
                      THEN StripPrefix(lowered, "https://")
                      ELSE StripPrefix(lowered, "http://")
      noWww      == StripPrefix(noProtocol, "www.")
      noPath     == split(noWww, "/")[1]
  IN  split(noPath, ":")[1]

AllChars(str, Test(_)) == \A k \in 1 .. Len(str) : Test(SubSeq(str, k, k))
IsAlnumOrHyphen(ch) == IsAlnum(ch) \/ ch = "-"

\* [a-zA-Z0-9](?:[a-zA-Z0-9-]{0,61}[a-zA-Z0-9])?
IsDomainLabel(label) ==
  /\ Len(label) >= 1 /\ Len(label) <= 63
  /\ IsAlnum(SubSeq(label, 1, 1))
  /\ IsAlnum(SubSeq(label, Len(label), Len(label)))
  /\ AllChars(label, IsAlnumOrHyphen)

\* xn--[a-zA-Z0-9]+
IsIdnLabel(label) ==
  /\ startsWith(label, "xn--")
  /\ Len(label) >= 5
  /\ AllChars(SubSeq(label, 5, Len(label)), IsAlnum)

\* [a-zA-Z]{2,}
IsTldLabel(label) == Len(label) >= 2 /\ AllChars(label, IsAlpha)

\* DOMAIN_REGEX.test(str)
MatchesDomainRegex(str) ==
  LET labels == split(str, ".")
  IN  /\ Len(labels) >= 2
      /\ IsTldLabel(labels[Len(labels)])
      /\ \A k \in 1 .. (Len(labels) - 1) : IsDomainLabel(labels[k])

\* IDN_REGEX.test(str)
MatchesIdnRegex(str) ==
  LET labels == split(str, ".")
  IN  /\ Len(labels) >= 2
      /\ IsTldLabel(labels[Len(labels)])
      /\ \A k \in 1 .. (Len(labels) - 1) : IsIdnLabel(labels[k])

MAX_DOMAIN_LENGTH == 253

isValidDomain(domain) ==
  /\ Len(domain) > 0
  /\ LET cleanDomain == trim(toLowerCase(domain))
     IN  /\ Len(cleanDomain) <= MAX_DOMAIN_LENGTH
         /\ (MatchesDomainRegex(cleanDomain) \/ MatchesIdnRegex(cleanDomain))

(***************************************************************************)
(* cache.ts: CacheService over node-cache                                  *)
(***************************************************************************)
\* The cache is the list of its entries [key, value] in insertion order,
\* which is the order of NodeCache.keys().
CacheKeys(cache) == [k \in 1 .. Len(cache) |-> cache[k].key]

CacheHas(cache, key) == \E k \in 1 .. Len(cache) : cache[k].key = key

CacheValue(cache, key) ==
  cache[CHOOSE k \in 1 .. Len(cache) : cache[k].key = key].value

\* CacheService.generateKey
generateKey(domain) == "whois:" \o trim(toLowerCase(domain))

\* NodeCache.del(key)
CacheDel(cache, key) == SelectSeq(cache, LAMBDA e : e.key # key)

\* NodeCache.set(key, value): an existing key keeps its place.
CachePut(cache, key, value) ==
  IF CacheHas(cache, key)
    THEN [k \in 1 .. Len(cache) |->
            IF cache[k].key = key THEN [key |-> key, value |-> value] ELSE cache[k]]
    ELSE Append(cache, [key |-> key, value |-> value])

\* Math.max(1, Math.floor(keys.length * 0.1))
EvictCountNone(n) == 0
EvictCount(n) == IF n \div 10 > 1 THEN n \div 10 ELSE 1

\* CacheService.evictOldest
evictOldest(cache) ==
  IF Len(cache) > 0
    THEN SubSeq(cache, EvictCount(Len(cache)) + 1, Len(cache))
    ELSE cache

\* CacheService.set(domain, result) of an enabled cache with this maxKeys.
CacheSetMax(cache, maxKeys, domain, result) ==
  LET room == IF Len(cache) >= maxKeys THEN evictOldest(cache) ELSE cache
  IN  CachePut(room, generateKey(domain), result)

CacheSet(cache, domain, result) == CacheSetMax(cache, MaxKeys, domain, result)

(***************************************************************************)
(* whois-service: mergeWhoisData                                           *)
(***************************************************************************)
Undefined == "<undefined>"
NoArray == [defined |-> FALSE, items |-> <<>>]
Array(items) == [defined |-> TRUE, items |-> items]

\* WhoisData, reduced to two scalar fields and the two array fields.
WhoisData(domainName, registrar, nameServers, status) ==
  [present |-> TRUE, domainName |-> domainName, registrar |-> registrar,
   nameServers |-> nameServers, status |-> status]
NullData ==
  [present |-> FALSE, domainName |-> Undefined, registrar |-> Undefined,
   nameServers |-> NoArray, status |-> NoArray]

\* Array.from(new Set(items)): the first occurrence of each item, in order.
RECURSIVE Dedup(_)
Dedup(items) ==
  IF Len(items) = 0 THEN <<>>
  ELSE LET front == Dedup(SubSeq(items, 1, Len(items) - 1))
           last  == items[Len(items)]
       IN  IF \E k \in 1 .. Len(front) : front[k] = last THEN front
           ELSE Append(front, last)

\* The test "value !== undefined && value !== '' && value !== null" and the
\* test on merged[key], for a scalar field.
MergeScalarLastWins(mergedValue, value) ==
  IF value # Undefined /\ value # "" THEN value ELSE mergedValue
MergeScalar(mergedValue, value) ==
  IF value # Undefined /\ value # "" /\ (mergedValue = Undefined \/ mergedValue = "")
    THEN value ELSE mergedValue

\* The same for an array field, followed by the special handling of arrays.
MergeArrayFirstWins(mergedValue, value) ==
  IF value.defined /\ ~mergedValue.defined THEN value ELSE mergedValue
MergeArray(mergedValue, value) ==
  LET assigned == IF value.defined /\ ~mergedValue.defined THEN value ELSE mergedValue
  IN  IF value.defined /\ Len(value.items) > 0
        THEN Array(Dedup(assigned.items \o value.items))
        ELSE assigned

\* One pass of the loop over successfulResponses.
MergeOne(merged, data) ==
  [present     |-> TRUE,
   domainName  |-> MergeScalar(merged.domainName, data.domainName),
   registrar   |-> MergeScalar(merged.registrar, data.registrar),
   nameServers |-> MergeArray(merged.nameServers, data.nameServers),
   status      |-> MergeArray(merged.status, data.status)]

RECURSIVE MergeAll(_, _)
MergeAll(merged, successful) ==
  IF Len(successful) = 0 THEN merged
  ELSE MergeAll(MergeOne(merged, successful[1].data),
                SubSeq(successful, 2, Len(successful)))

mergeWhoisData(responses) ==
  LET successfulResponses == SelectSeq(responses, LAMBDA r : r.success /\ r.data.present)
  IN  IF Len(successfulResponses) = 0 THEN NullData
      ELSE MergeAll(WhoisData("", Undefined, NoArray, NoArray), successfulResponses)

(***************************************************************************)
(* whois-service: queryProvider and lookupWhois                            *)
(***************************************************************************)
ProviderNames == {"tredis", "native", "whoisxml", "custom"}

\* The cases of queryProvider's switch: part_011 has no 'tredis' case.
KnownProviders(module) ==
  IF module = "part_011" THEN {"native", "whoisxml", "jsonwhois"}
  ELSE {"tredis", "native", "whoisxml", "jsonwhois"}

\* DEFAULT_CONFIG.providers[p].priority; "custom" is a provider a caller's
\* config adds.
Priority(p) ==
  CASE p = "tredis" -> 0
    [] p = "native" -> 1
    [] p = "whoisxml" -> 2
    [] p = "jsonwhois" -> 3
    [] OTHER -> 4

\* The sets of providers a config enables.
EnabledChoices == {{}, {"native"}, {"tredis", "native"}, {"whoisxml", "custom"}}

\* .filter(enabled).sort(by priority): the enabled providers in priority order.
RECURSIVE SortByPriority(_)
SortByPriority(set) ==
  IF set = {} THEN <<>>
  ELSE LET first == CHOOSE p \in set : \A q \in set : Priority(p) <= Priority(q)
       IN  <<first>> \o SortByPriority(set \ {first})

ProviderResponse(p, success, data, err, responseTime) ==
  [provider |-> p, success |-> success, data |-> data, error |-> err,
   responseTime |-> responseTime]
NoResponse == ProviderResponse("", FALSE, NullData, Undefined, 0)

\* What a provider's own lookup can come back with.
DataChoices ==
  { WhoisData("example.com", "RegA", NoArray, Array(<<"active">>)),
    WhoisData(Undefined, "RegB", Array(<<"ns1", "ns2", "ns1">>), Array(<<"active", "locked">>)) }

\* The providers that take an API key (queryWhoisXml, queryJsonWhois).
KeyedProviders == {"whoisxml", "jsonwhois"}

\* The errors a provider that did run reports; a commercial API may also
\* refuse the key it was given.
ResponseErrors(p) ==
  {"Connection timeout"} \cup (IF p \in KeyedProviders THEN {"Invalid API key"} ELSE {})
ThrownErrors == {"socket hang up"}

\* queryWhoisXml / queryJsonWhois without an apiKey: `if (!apiKey) return ...`
MissingKeyResponse(p) ==
  ProviderResponse(p, FALSE, NullData, "API key not configured", 0)

ProviderOutcomes(p, hasKey) ==
  IF p \in KeyedProviders /\ ~hasKey
    THEN {[kind |-> "return", response |-> MissingKeyResponse(p), thrown |-> Undefined]}
    ELSE {[kind |-> "return", response |-> ProviderResponse(p, TRUE, d, Undefined, 1),
           thrown |-> Undefined] : d \in DataChoices}
         \cup {[kind |-> "return", response |-> ProviderResponse(p, FALSE, NullData, e, 1),
                thrown |-> Undefined] : e \in ResponseErrors(p)}
         \cup {[kind |-> "throw", response |-> NoResponse, thrown |-> e] :
                 e \in ThrownErrors}

\* The state of one queryProvider() call.
Task(state, attempt, lastErr, response, calls, waits) ==
  [state |-> state, attempt |-> attempt, lastError |-> lastErr,
   response |-> response, calls |-> calls, waits |-> waits]
TaskOff == Task("off", 0, "", NoResponse, 0, <<>>)

RETRY_BASE_DELAY_MS == 1000

\* setTimeout(resolve, 1000 * attempt)
BackoffDelay(attempt) == RETRY_BASE_DELAY_MS * attempt

\* The return after the for loop.
FailedAfter(p, maxRetries, lastErr) ==
  ProviderResponse(p, FALSE, NullData,
    "Failed after " \o ToString(maxRetries) \o " attempts: " \o lastErr, 0)

\* "Don't retry on certain errors"
IsConfigurationErrorNever(lastErr) == FALSE
IsConfigurationError(lastErr) ==
  includes(lastErr, "not configured") \/ includes(lastErr, "API key")

\* The end of one pass of the for loop, after the try/catch: wait and go
\* round again, or leave the loop.
AfterFailedAttemptOneMore(p, t, maxRetries, lastErr) ==
  IF t.attempt <= maxRetries
    THEN Task("backoff", t.attempt, lastErr, NoResponse, t.calls,
              Append(t.waits, BackoffDelay(t.attempt)))
    ELSE Task("settled", t.attempt, lastErr, FailedAfter(p, maxRetries, lastErr),
              t.calls, t.waits)
AfterFailedAttempt(p, t, maxRetries, lastErr) ==
  IF t.attempt < maxRetries
    THEN Task("backoff", t.attempt, lastErr, NoResponse, t.calls,
              Append(t.waits, BackoffDelay(t.attempt)))
    ELSE Task("settled", t.attempt, lastErr, FailedAfter(p, maxRetries, lastErr),
              t.calls, t.waits)

\* queryProvider(p, ...) from its call to its first await.
TaskStarted(module, p, maxRetries) ==
  IF 1 > maxRetries
    THEN Task("settled", 1, "", FailedAfter(p, maxRetries, ""), 0, <<>>)
  ELSE IF p \notin KnownProviders(module)
    THEN Task("settled", 1, "",
              ProviderResponse(p, FALSE, NullData, "Unknown provider: " \o p, 0), 0, <<>>)
  ELSE Task("calling", 1, "", NoResponse, 1, <<>>)

\* The awaited provider call comes back with outcome o.
TaskAfterOutcome(p, t, maxRetries, o) ==
  IF o.kind = "throw"
    THEN AfterFailedAttempt(p, t, maxRetries, o.thrown)
  ELSE IF o.response.success
    THEN Task("settled", t.attempt, t.lastError, o.response, t.calls, t.waits)
  ELSE LET lastErr == IF o.response.error \in {Undefined, ""} THEN "Unknown error"
                      ELSE o.response.error
       IN  IF IsConfigurationError(lastErr)
             THEN Task("settled", t.attempt, lastErr, o.response, t.calls, t.waits)
             ELSE AfterFailedAttempt(p, t, maxRetries, lastErr)

\* The result lookupWhois returns.
WhoisResult(domain, cached, data, providers, errors) ==
  [domain |-> domain, cached |-> cached, data |-> data, providers |-> providers,
   errors |-> errors, settled |-> TRUE]
NoWhoisResult ==
  [domain |-> "", cached |-> FALSE, data |-> NullData, providers |-> <<>>,
   errors |-> <<>>, settled |-> FALSE]

\* await Promise.all(providerPromises) resumes once every promise is fulfilled.
AnySettled(tasks, enabled) == \E p \in enabled : tasks[p].state = "settled"
AllSettled(tasks, enabled) == \A p \in enabled : tasks[p].state = "settled"

\* responses.filter(r => !r.success).map(r => `${r.provider}: ${r.error}`)
CollectErrors(responses) ==
  LET failed == SelectSeq(responses, LAMBDA r : ~r.success)
  IN  [k \in 1 .. Len(failed) |-> failed[k].provider \o ": " \o failed[k].error]

\* The result built after Promise.all.
MergedResult(domain, tasks, enabled) ==
  LET order     == SortByPriority(enabled)
      responses == [k \in 1 .. Len(order) |-> tasks[order[k]].response]
  IN  WhoisResult(domain, FALSE, mergeWhoisData(responses), responses,
                  CollectErrors(responses))

\* keys: the enabled providers whose config carries an apiKey.
SvcArgs(domain, force, enabled, retries, keys) ==
  [domain |-> domain, force |-> force, enabled |-> enabled, retries |-> retries,
   keys |-> keys]

\* The early returns of lookupWhois, or the dispatch of every enabled provider.
SvcDispatch(args, normalizedDomain) ==
  /\ svcArgs' = args
  /\ svcDomain' = normalizedDomain
  /\ IF args.enabled = {}
       THEN /\ svcPc' = "done"
            /\ svcResult' = WhoisResult(normalizedDomain, FALSE, NullData, <<>>,
                                        <<"No WHOIS providers enabled">>)
            /\ UNCHANGED task
       ELSE /\ svcPc' = "querying"
            /\ svcResult' = NoWhoisResult
            /\ task' = [p \in ProviderNames |->
                 IF p \in args.enabled
                   THEN TaskStarted(serviceModule, p, args.retries)
                   ELSE TaskOff]

\* The return for a domain that is not valid.
SvcInvalidDispatches(args, normalizedDomain) ==
  /\ SvcDispatch(args, normalizedDomain)
  /\ svcCacheRead' = FALSE
SvcInvalid(args, normalizedDomain) ==
  /\ svcArgs' = args
  /\ svcDomain' = normalizedDomain
  /\ svcPc' = "done"
  /\ svcResult' = WhoisResult(normalizedDomain, FALSE, NullData, <<>>,
                              <<"Invalid domain name">>)
  /\ svcCacheRead' = FALSE
  /\ UNCHANGED task

\* part_011: lookupWhois(domain, {force, config}) up to its first await.
SvcBegin(domain, force, enabled, retries, keys) ==
  /\ serviceModule = "part_011"
  /\ svcPc = "idle"
  /\ LET args == SvcArgs(domain, force, enabled, retries, keys)
         normalizedDomain == normalizeDomain(domain)
     IN  IF ~isValidDomain(normalizedDomain)
           THEN SvcInvalid(args, normalizedDomain)
         ELSE IF ~force /\ CacheHas(nodeCache, generateKey(normalizedDomain))
           THEN /\ svcArgs' = args
                /\ svcDomain' = normalizedDomain
                /\ svcPc' = "done"
                /\ svcResult' = [CacheValue(nodeCache, generateKey(normalizedDomain))
                                   EXCEPT !.cached = TRUE]
                /\ svcCacheRead' = TRUE
                /\ UNCHANGED task
         ELSE /\ SvcDispatch(args, normalizedDomain)
              /\ svcCacheRead' = ~force
  /\ UNCHANGED <<serviceModule, nodeCache, pmVars, lwcVars, distVars, newVars, moreVars>>

\* whois-service.ts: the same function, which has no cache.
SvcBeginTs(domain, force, enabled, retries, keys) ==
  /\ serviceModule = "whois-service.ts"
  /\ svcPc = "idle"
  /\ LET args == SvcArgs(domain, force, enabled, retries, keys)
         normalizedDomain == normalizeDomain(domain)
     IN  IF ~isValidDomain(normalizedDomain)
           THEN SvcInvalid(args, normalizedDomain)
           ELSE /\ SvcDispatch(args, normalizedDomain)
                /\ svcCacheRead' = FALSE
  /\ UNCHANGED <<serviceModule, nodeCache, pmVars, lwcVars, distVars, newVars, moreVars>>

\* The provider call that queryProvider(p) awaits comes back.
ProviderSettles(p, o) ==
  /\ svcPc = "querying"
  /\ task[p].state = "calling"
  /\ task' = [task EXCEPT ![p] = TaskAfterOutcome(p, task[p], svcArgs.retries, o)]
  /\ UNCHANGED <<serviceModule, nodeCache, svcPc, svcArgs, svcDomain, svcResult,
                 svcCacheRead, pmVars, lwcVars, distVars, newVars, moreVars>>

\* The backoff timer of queryProvider(p) fires: the next attempt is made.
BackoffElapsed(p) ==
  /\ svcPc = "querying"
  /\ task[p].state = "backoff"
  /\ task' = [task EXCEPT ![p] =
       Task("calling", task[p].attempt + 1, task[p].lastError, NoResponse,
            task[p].calls + 1, task[p].waits)]
  /\ UNCHANGED <<serviceModule, nodeCache, svcPc, svcArgs, svcDomain, svcResult,
                 svcCacheRead, pmVars, lwcVars, distVars, newVars, moreVars>>

\* part_011: Promise.all is fulfilled; the responses are merged, a result
\* with data is cached, and the result returned.
SvcMerge ==
  /\ serviceModule = "part_011"
  /\ svcPc = "querying"
  /\ AllSettled(task, svcArgs.enabled)
  /\ LET result == MergedResult(svcDomain, task, svcArgs.enabled)
     IN  /\ svcResult' = result
         /\ nodeCache' = IF result.data.present
                           THEN CacheSet(nodeCache, svcDomain, result)
                           ELSE nodeCache
  /\ svcPc' = "done"
  /\ UNCHANGED <<serviceModule, svcArgs, svcDomain, task, svcCacheRead,
                 pmVars, lwcVars, distVars, newVars, moreVars>>

\* whois-service.ts: the same point; the result is returned and not stored.
SvcMergeTs ==
  /\ serviceModule = "whois-service.ts"
  /\ svcPc = "querying"
  /\ AllSettled(task, svcArgs.enabled)
  /\ svcResult' = MergedResult(svcDomain, task, svcArgs.enabled)
  /\ svcPc' = "done"
  /\ UNCHANGED <<serviceModule, nodeCache, svcArgs, svcDomain, task, svcCacheRead,
                 pmVars, lwcVars, distVars, newVars, moreVars>>

\* The caller has consumed the result.
SvcReturn ==
  /\ svcPc = "done"
  /\ svcPc' = "idle"
  /\ svcResult' = NoWhoisResult
  /\ task' = [p \in ProviderNames |-> TaskOff]
  /\ UNCHANGED <<serviceModule, nodeCache, svcArgs, svcDomain, svcCacheRead,
                 pmVars, lwcVars, distVars, newVars, moreVars>>

\* node-cache drops an entry whose TTL has run out.
NodeCacheExpire(key) ==
  /\ CacheHas(nodeCache, key)
  /\ nodeCache' = CacheDel(nodeCache, key)
  /\ UNCHANGED <<serviceModule, svcPc, svcArgs, svcDomain, task, svcResult,
                 svcCacheRead, pmVars, lwcVars, distVars, newVars, moreVars>>

\* The domains callers pass to lookupWhois.
SvcDomains == {"example.com", "HTTPS://WWW.Example.com/path", "bad_domain"}
ServiceModules == {"part_011", "whois-service.ts"}

\* The keys the cache can hold.
SvcKeys == {generateKey(normalizeDomain(d)) : d \in SvcDomains}

SvcVarsInit ==
  /\ serviceModule \in ServiceModules
  /\ nodeCache = <<>>
  /\ svcPc = "idle"
  /\ svcArgs = SvcArgs("example.com", FALSE, {}, 1, {})
  /\ svcDomain = ""
  /\ task = [p \in ProviderNames |-> TaskOff]
  /\ svcResult = NoWhoisResult
  /\ svcCacheRead = FALSE

(***************************************************************************)
(* distributed-lookup: distributedWhoisLookup                              *)
(***************************************************************************)
FORWARD_TIMEOUT_MS == 30000

\* The clock advances in steps of half the forward timeout, up to twice it.
ClockStep == FORWARD_TIMEOUT_MS \div 2
MaxClock == 2 * FORWARD_TIMEOUT_MS

EndpointChoices == {<<>>, <<"https://api1">>, <<"https://api1", "https://api2">>}

\* The statuses a sibling answers with.
Statuses == {200, 404, 500}

\* response.ok
ResponseOkLoose(status) == status >= 200 /\ status <= 599
ResponseOk(status) == status >= 200 /\ status <= 299

\* What response.json() yields: a WhoisResult, or a parse error.
Malformed == [malformed |-> TRUE]
RemoteBodies == {LookupSuccess, LookupFailure("Domain or TLD not found")}

NoEndpoint == "<null>"
DistResult(via, value, endpoint) == [via |-> via, value |-> value, endpoint |-> endpoint]
NoDistResult == DistResult("none", NoResult, NoEndpoint)

\* hasApiEndpoints()
hasApiEndpoints == Len(endpoints) > 0

\* The timer distributedWhoisLookup arms for call c at time t.
AbortTimer(c, t) == [call |-> c, deadline |-> t + FORWARD_TIMEOUT_MS]

\* Lines 90-92: the local query, reached on a sub server and after a failed
\* forward; runs lookupWhoisWithCache up to its first await.
LocalLookup(domain) ==
  /\ \E r \in CacheCalls :
       /\ \A q \in CacheCalls : q < r => lwcPc[q] # "idle"
       /\ LwcCall(r, domain)
       /\ dLocal' = r
  /\ dLocalCalls' = dLocalCalls + 1
  /\ dPc' = "local"

\* distributedWhoisLookup(domain) on a main server with endpoints: picks an
\* endpoint, arms the abort timer and sends the request.
DForward(domain, k) ==
  /\ dPc = "idle"
  /\ dCall < NDistCalls
  /\ isMain /\ hasApiEndpoints
  /\ k \in 1 .. Len(endpoints)
  /\ dCall' = dCall + 1
  /\ dDomain' = domain
  /\ dEndpoint' = endpoints[k]
  /\ dSentAt' = clock
  /\ dTimers' = dTimers \cup {AbortTimer(dCall + 1, clock)}
  /\ dForward' = "pending"
  /\ dPc' = "fetch"
  /\ UNCHANGED <<isMain, endpoints, clock, dAborted, dStatus, dLocal, dLocalCalls,
                 dResult, pmVars, lwcVars, svcVars, newVars, moreVars>>

\* distributedWhoisLookup(domain) on a sub server, or with no endpoint.
DLocalOnly(domain) ==
  /\ dPc = "idle"
  /\ dCall < NDistCalls
  /\ ~(isMain /\ hasApiEndpoints)
  /\ dCall' = dCall + 1
  /\ dDomain' = domain
  /\ LocalLookup(domain)
  /\ UNCHANGED <<isMain, endpoints, clock, dEndpoint, dSentAt, dTimers, dAborted,
                 dStatus, dForward, dResult, pmVars, svcVars, newVars, moreVars>>

\* fetch() resolves with the response's status line and headers: the timer is
\* cleared; an ok response goes on to read the body, any other falls back.
HeadersArrive(status) ==
  /\ dPc = "fetch"
  /\ dCall \notin dAborted
  /\ dTimers' = {t \in dTimers : t.call # dCall}
  /\ dStatus' = status
  /\ IF ResponseOk(status)
       THEN /\ dPc' = "body"
            /\ UNCHANGED <<dForward, dLocal, dLocalCalls, lwcVars, moreVars>>
       ELSE /\ dForward' = "status"
            /\ LocalLookup(dDomain)
  /\ UNCHANGED <<isMain, endpoints, clock, dCall, dDomain, dEndpoint, dSentAt,
                 dAborted, dResult, pmVars, svcVars, newVars, moreVars>>

\* fetch() rejects with a network error; the timer stays armed.
FetchRejects ==
  /\ dPc = "fetch"
  /\ dCall \notin dAborted
  /\ dForward' = "network"
  /\ LocalLookup(dDomain)
  /\ UNCHANGED <<isMain, endpoints, clock, dCall, dDomain, dEndpoint, dSentAt,
                 dTimers, dAborted, dStatus, dResult, pmVars, svcVars, newVars, moreVars>>

\* An abort timer fires: controller.abort().
TimerFires(t) ==
  /\ t \in dTimers
  /\ clock >= t.deadline
  /\ dTimers' = dTimers \ {t}
  /\ dAborted' = dAborted \cup {t.call}
  /\ UNCHANGED <<isMain, endpoints, clock, dPc, dCall, dDomain, dEndpoint, dSentAt,
                 dStatus, dForward, dLocal, dLocalCalls, dResult,
                 pmVars, lwcVars, svcVars, newVars, moreVars>>

\* fetch() rejects with the AbortError of an aborted signal.
FetchAborted ==
  /\ dPc = "fetch"
  /\ dCall \in dAborted
  /\ dForward' = "aborted"
  /\ LocalLookup(dDomain)
  /\ UNCHANGED <<isMain, endpoints, clock, dCall, dDomain, dEndpoint, dSentAt,
                 dTimers, dAborted, dStatus, dResult, pmVars, svcVars, newVars, moreVars>>

\* response.json() settles: the parsed body is returned with _endpoint, a
\* parse error falls back.
BodyArrives(body) ==
  /\ dPc = "body"
  /\ IF body = Malformed
       THEN /\ dForward' = "malformed"
            /\ LocalLookup(dDomain)
            /\ UNCHANGED dResult
       ELSE /\ dForward' = "ok"
            /\ dPc' = "done"
            /\ dResult' = DistResult("remote", body, dEndpoint)
            /\ UNCHANGED <<dLocal, dLocalCalls, lwcVars, moreVars>>
  /\ UNCHANGED <<isMain, endpoints, clock, dCall, dDomain, dEndpoint, dSentAt,
                 dTimers, dAborted, dStatus, pmVars, svcVars, newVars, moreVars>>

\* The awaited lookupWhoisWithCache() has returned: its result is returned.
DLocalReturns ==
  /\ dPc = "local"
  /\ lwcPc[dLocal] = "done"
  /\ dResult' = DistResult("local", lwcReturned[dLocal], NoEndpoint)
  /\ lwcPc' = [lwcPc EXCEPT ![dLocal] = "idle"]
  /\ lwcReturned' = [lwcReturned EXCEPT ![dLocal] = NoResult]
  /\ dPc' = "done"
  /\ UNCHANGED <<isMain, endpoints, clock, dCall, dDomain, dEndpoint, dSentAt,
                 dTimers, dAborted, dStatus, dForward, dLocal, dLocalCalls,
                 lookupModule, redis, lwcDomain, pmVars, svcVars, newVars, moreVars>>

\* The caller has consumed the result.
DReturn ==
  /\ dPc = "done"
  /\ dPc' = "idle"
  /\ dStatus' = 0
  /\ dForward' = "none"
  /\ dLocalCalls' = 0
  /\ dResult' = NoDistResult
  /\ UNCHANGED <<isMain, endpoints, clock, dCall, dDomain, dEndpoint, dSentAt,
                 dTimers, dAborted, dLocal, pmVars, lwcVars, svcVars, newVars, moreVars>>

\* Time passes; a timer that is due fires before time passes any further.
ClockTick ==
  /\ clock < MaxClock
  /\ \A t \in dTimers : clock < t.deadline
  /\ clock' = clock + ClockStep
  /\ UNCHANGED <<isMain, endpoints, dPc, dCall, dDomain, dEndpoint, dSentAt,
                 dTimers, dAborted, dStatus, dForward, dLocal, dLocalCalls, dResult,
                 pmVars, lwcVars, svcVars, newVars, moreVars>>

DistVarsInit ==
  /\ isMain \in BOOLEAN
  /\ endpoints \in EndpointChoices
  /\ clock = 0
  /\ dPc = "idle"
  /\ dCall = 0
  /\ dDomain = "example.com"
  /\ dEndpoint = NoEndpoint
  /\ dSentAt = 0
  /\ dTimers = {}
  /\ dAborted = {}
  /\ dStatus = 0
  /\ dForward = "none"
  /\ dLocal = 1
  /\ dLocalCalls = 0
  /\ dResult = NoDistResult

\* The state of the distributed layer in the runs that do not use it.
DistVarsIdle == DistVarsInit /\ ~isMain /\ endpoints = <<>>

(***************************************************************************)
(* providers: the text parsers of native.ts and tredis                     *)
(***************************************************************************)
\* str.indexOf(ch) for a one-character ch, 1-based; 0 when absent.
indexOf(str, ch) ==
  IF \E k \in 1 .. Len(str) : SubSeq(str, k, k) = ch
    THEN CHOOSE k \in 1 .. Len(str) :
           /\ SubSeq(str, k, k) = ch
           /\ \A j \in 1 .. (k - 1) : SubSeq(str, j, j) # ch
    ELSE 0

\* The key and value of one line of a WHOIS answer; skip when the line
\* carries none. Comment lines start with one of commentMarks; dotFallback
\* is TREDIS's "key. value" form.
ParseLine(line, commentMarks, dotFallback) ==
  LET trimmedLine == trim(line)
      colon       == indexOf(trimmedLine, ":")
      dot         == indexOf(trimmedLine, ".")
      colonIndex  == IF colon # 0 THEN colon
                     ELSE IF dotFallback /\ dot # 0 /\ dot - 1 <= 30 THEN dot
                     ELSE 0
      key         == toLowerCase(trim(SubSeq(trimmedLine, 1, colonIndex - 1)))
      value       == trim(SubSeq(trimmedLine, colonIndex + 1, Len(trimmedLine)))
  IN  IF \/ trimmedLine = ""
         \/ \E mark \in commentMarks : startsWith(trimmedLine, mark)
         \/ colonIndex = 0
         \/ value = ""
        THEN [skip |-> TRUE, key |-> "", value |-> ""]
        ELSE [skip |-> FALSE, key |-> key, value |-> value]

RegistrarKeys == {"registrar", "registrar name"}
CreationKeys == {"creation date", "created", "created on", "registered"}
NameServerKeys == {"name server", "nameserver", "nserver", "ns", "dns", "host name"}
RegistrantKeys == {"registrant", "registrant name"}

\* The fields of the parse that the providers test afterwards.
ParsedFields(registrar, registrantName, creationDate, nameServers) ==
  [registrar |-> registrar, registrantName |-> registrantName,
   creationDate |-> creationDate, nameServers |-> nameServers]
NoFields == ParsedFields(Undefined, Undefined, Undefined, <<>>)

\* nameServers.push(ns) unless already included.
PushNew(list, item) ==
  IF \E k \in 1 .. Len(list) : list[k] = item THEN list ELSE Append(list, item)

\* One pass of parseWhoisText's loop: a repeated key assigns again.
NativeStep(data, line) ==
  LET kv == ParseLine(line, {"%", "#"}, FALSE)
  IN  IF kv.skip THEN data
      ELSE IF kv.key \in RegistrarKeys THEN [data EXCEPT !.registrar = kv.value]
      ELSE IF kv.key \in CreationKeys THEN [data EXCEPT !.creationDate = kv.value]
      ELSE IF kv.key \in RegistrantKeys \cup {"owner", "holder"}
        THEN [data EXCEPT !.registrantName = kv.value]
      ELSE IF kv.key \in NameServerKeys
        THEN [data EXCEPT !.nameServers =
                PushNew(@, split(toLowerCase(kv.value), " ")[1])]
      ELSE data

\* One pass of parseTredisResponse's loop: registrar keeps its first value.
TredisStep(data, line) ==
  LET kv == ParseLine(line, {"**", "%"}, TRUE)
  IN  IF kv.skip THEN data
      ELSE IF kv.key \in RegistrarKeys \cup {"organization"}
        THEN IF data.registrar = Undefined THEN [data EXCEPT !.registrar = kv.value]
             ELSE data
      ELSE IF kv.key \in CreationKeys THEN [data EXCEPT !.creationDate = kv.value]
      ELSE IF kv.key \in RegistrantKeys \cup {"holder"}
        THEN [data EXCEPT !.registrantName = kv.value]
      ELSE IF kv.key \in NameServerKeys
        THEN [data EXCEPT !.nameServers =
                PushNew(@, split(toLowerCase(kv.value), " ")[1])]
      ELSE data

\* The loop over the lines of the answer.
RECURSIVE ParseLines(_, _, _)
ParseLines(lines, data, tredis) ==
  IF lines = <<>> THEN data
  ELSE ParseLines(Tail(lines),
                  IF tredis THEN TredisStep(data, Head(lines))
                  ELSE NativeStep(data, Head(lines)),
                  tredis)

parseWhoisText(rawData) == ParseLines(split(rawData, "\n"), NoFields, FALSE)
parseTredisResponse(rawData) == ParseLines(split(rawData, "\n"), NoFields, TRUE)

(***************************************************************************)
(* providers: queryTredis over queryTredisSocket, queryNativeWhois over    *)
(* whoisLookup. Turkish messages are written without diacritics.           *)
(***************************************************************************)
\* The timeout handed to the provider, in ticks.
SockTimeout == 2
\* The clock of a query stops here.
MaxElapsed == 3
\* The most chunks a server sends.
MaxChunks == 2

TREDIS_RAW_MIN == 50
NATIVE_RAW_MIN == 100

\* What a provider function ends with: a returned response or a thrown error.
Returns(response) == [kind |-> "return", response |-> response, thrown |-> Undefined]
Throws(err) == [kind |-> "throw", response |-> NoResponse, thrown |-> err]
NotEnded == [kind |-> "pending", response |-> NoResponse, thrown |-> Undefined]

Failure(p, err) == ProviderResponse(p, FALSE, NullData, err, 1)

\* The catch clause of a provider function: the error becomes a response.
CatchRethrows(p, err) == Throws(err)
CatchToResponse(p, err) == Returns(Failure(p, err))

endsWith(str, suffix) ==
  Len(str) >= Len(suffix)
  /\ SubSeq(str, Len(str) - Len(suffix) + 1, Len(str)) = suffix

isTrDomain(domain) == endsWith(toLowerCase(domain), ".tr")

IncludesAny(str, needles) == \E needle \in needles : includes(str, needle)

TredisNotFoundPhrases ==
  {"no match", "not found", "no entries", "bulunamadi", "kayitli degil", "no data found"}
NativeNotFoundPhrases == {"no match", "not found", "no entries found", "no data found"}

\* The WhoisData a parser's fields make.
DataOf(domain, fields) ==
  WhoisData(domain, fields.registrar,
            IF fields.nameServers = <<>> THEN NoArray ELSE Array(fields.nameServers),
            NoArray)

\* queryTredis after the socket has delivered rawData.
TredisResponse(domain, rawData) ==
  LET fields == parseTredisResponse(rawData)
  IN  IF trim(rawData) = ""
        THEN Failure("tredis", "Empty TREDIS response")
      ELSE IF IncludesAny(toLowerCase(rawData), TredisNotFoundPhrases)
        THEN Failure("tredis", "Domain bulunamadi (Domain not found in TREDIS)")
      ELSE IF /\ fields.registrar = Undefined
              /\ fields.registrantName = Undefined
              /\ fields.creationDate = Undefined
              /\ fields.nameServers = <<>>
        THEN IF Len(rawData) > TREDIS_RAW_MIN
               THEN ProviderResponse("tredis", TRUE, DataOf(domain, fields), Undefined, 1)
               ELSE Failure("tredis", "TREDIS response contains no useful data")
      ELSE ProviderResponse("tredis", TRUE, DataOf(domain, fields), Undefined, 1)

\* queryNativeWhois after whoisLookup has delivered rawData.
NativeResponse(domain, rawData) ==
  LET fields == parseWhoisText(rawData)
  IN  IF trim(rawData) = ""
        THEN Failure("native", "bos whois yaniti")
      ELSE IF IncludesAny(toLowerCase(rawData), NativeNotFoundPhrases)
        THEN Failure("native", "domain whois veritabaninda bulunamadi")
      ELSE IF /\ fields.registrar = Undefined
              /\ fields.creationDate = Undefined
              /\ fields.nameServers = <<>>
        THEN IF Len(rawData) > NATIVE_RAW_MIN
               THEN ProviderResponse("native", TRUE, DataOf(domain, fields), Undefined, 1)
               ELSE Failure("native", "whois yaniti kullanisli veri icermiyor")
      ELSE ProviderResponse("native", TRUE, DataOf(domain, fields), Undefined, 1)

\* A promise: the first settlement wins.
Pending == [state |-> "pending", value |-> ""]
Resolve(promise, value) ==
  IF promise.state = "pending" THEN [state |-> "resolved", value |-> value] ELSE promise
Reject(promise, err) ==
  IF promise.state = "pending" THEN [state |-> "rejected", value |-> err] ELSE promise

TredisTimeoutError == "TREDIS query timeout"
NativeTimeoutError == "WHOIS sorgu zaman asimi"

\* The text a WHOIS server sends, in chunks.
Junk60 == "------------------------------------------------------------"
Chunks ==
  {"Registrar: RegA\nName Server: NS1.a.io\n", "No match for domain\n", " \n",
   Junk60, "hello\n", "Registrar: RegB\n"}
SocketErrors == {"connect ECONNREFUSED"}
SockDomains == {"example.com.tr", "example.com"}

\* The query function starts: the socket is created and the timer armed.
SocketOpened(p, domain) ==
  /\ qProvider' = p
  /\ qDomain' = domain
  /\ qPc' = "socket"
  /\ sock' = "connecting"
  /\ sData' = ""
  /\ sChunks' = 0
  /\ sTimer' = TRUE
  /\ sElapsed' = 0
  /\ sPromise' = Pending
  /\ qResult' = NotEnded

\* queryTredis(domain, timeout) up to its first await.
QueryTredis(domain) ==
  /\ qPc = "idle"
  /\ IF ~isTrDomain(domain)
       THEN /\ qProvider' = "tredis"
            /\ qDomain' = domain
            /\ qPc' = "done"
            /\ qResult' = Returns(Failure("tredis", "TREDIS only supports .tr domains"))
            /\ UNCHANGED <<sock, sData, sChunks, sTimer, sElapsed, sPromise>>
       ELSE SocketOpened("tredis", domain)
  /\ UNCHANGED <<pmVars, lwcVars, svcVars, distVars, rdapVars, mrgVars, moreVars>>

\* queryNativeWhois(domain, timeout) up to its first await.
QueryNative(domain) ==
  /\ qPc = "idle"
  /\ SocketOpened("native", domain)
  /\ UNCHANGED <<pmVars, lwcVars, svcVars, distVars, rdapVars, mrgVars, moreVars>>

\* The connection is established (queryTredisSocket then writes the query).
SockConnect ==
  /\ sock = "connecting"
  /\ sock' = "open"
  /\ UNCHANGED <<qProvider, qPc, qDomain, sData, sChunks, sTimer, sElapsed, sPromise, qResult,
                 pmVars, lwcVars, svcVars, distVars, rdapVars, mrgVars, moreVars>>

\* 'data': a chunk arrives.
SockData(chunk) ==
  /\ sock = "open"
  /\ sChunks < MaxChunks
  /\ sData' = sData \o chunk
  /\ sChunks' = sChunks + 1
  /\ UNCHANGED <<qProvider, qPc, qDomain, sock, sTimer, sElapsed, sPromise, qResult,
                 pmVars, lwcVars, svcVars, distVars, rdapVars, mrgVars, moreVars>>

\* queryTredisSocket, 'end': the server has finished.
TredisEnd ==
  /\ qProvider = "tredis"
  /\ sock = "open"
  /\ sock' = "ended"
  /\ sTimer' = FALSE
  /\ sPromise' = Resolve(sPromise, sData)
  /\ UNCHANGED <<qProvider, qPc, qDomain, sData, sChunks, sElapsed, qResult,
                 pmVars, lwcVars, svcVars, distVars, rdapVars, mrgVars, moreVars>>

\* queryTredisSocket, 'error'.
TredisError(err) ==
  /\ qProvider = "tredis"
  /\ sock \in {"connecting", "open"}
  /\ sock' = "errored"
  /\ sTimer' = FALSE
  /\ sPromise' = Reject(sPromise, err)
  /\ UNCHANGED <<qProvider, qPc, qDomain, sData, sChunks, sElapsed, qResult,
                 pmVars, lwcVars, svcVars, distVars, rdapVars, mrgVars, moreVars>>

\* queryTredisSocket, 'close': the last event of the socket, after 'end',
\* 'error' or destroy(), or on its own; the handler tests none of them.
TredisClose ==
  /\ qProvider = "tredis"
  /\ sock \in {"connecting", "open", "ended", "errored", "destroyed"}
  /\ sock' = "closed"
  /\ sTimer' = FALSE
  /\ sPromise' = IF sData # "" THEN Resolve(sPromise, sData) ELSE sPromise
  /\ UNCHANGED <<qProvider, qPc, qDomain, sData, sChunks, sElapsed, qResult,
                 pmVars, lwcVars, svcVars, distVars, rdapVars, mrgVars, moreVars>>

\* queryTredisSocket, the timer: client.destroy() and reject.
TredisTimeout ==
  /\ qProvider = "tredis"
  /\ sTimer
  /\ sElapsed >= SockTimeout
  /\ sTimer' = FALSE
  /\ sock' = IF sock = "closed" THEN sock ELSE "destroyed"
  /\ sPromise' = Reject(sPromise, TredisTimeoutError)
  /\ UNCHANGED <<qProvider, qPc, qDomain, sData, sChunks, sElapsed, qResult,
                 pmVars, lwcVars, svcVars, distVars, rdapVars, mrgVars, moreVars>>

\* whoisLookup: the whois library calls back with an error (err # "") or with
\* the text it collected, and has closed its socket.
NativeCallback(err) ==
  /\ qProvider = "native"
  /\ sock \in {"connecting", "open"}
  /\ sock' = "closed"
  /\ sTimer' = FALSE
  /\ sPromise' = IF err # "" THEN Reject(sPromise, err) ELSE Resolve(sPromise, sData)
  /\ UNCHANGED <<qProvider, qPc, qDomain, sData, sChunks, sElapsed, qResult,
                 pmVars, lwcVars, svcVars, distVars, rdapVars, mrgVars, moreVars>>

\* whoisLookup, the timer: reject; the library and its socket are not touched.
NativeTimeout ==
  /\ qProvider = "native"
  /\ sTimer
  /\ sElapsed >= SockTimeout
  /\ sTimer' = FALSE
  /\ sPromise' = Reject(sPromise, NativeTimeoutError)
  /\ UNCHANGED <<qProvider, qPc, qDomain, sock, sData, sChunks, sElapsed, qResult,
                 pmVars, lwcVars, svcVars, distVars, rdapVars, mrgVars, moreVars>>

\* The await of the query function resumes: the text is classified, a
\* rejection is caught.
QueryResumes ==
  /\ qPc = "socket"
  /\ sPromise.state # "pending"
  /\ qResult' =
       IF sPromise.state = "rejected" THEN CatchToResponse(qProvider, sPromise.value)
       ELSE IF qProvider = "tredis" THEN Returns(TredisResponse(qDomain, sPromise.value))
       ELSE Returns(NativeResponse(qDomain, sPromise.value))
  /\ qPc' = "done"
  /\ UNCHANGED <<qProvider, qDomain, sock, sData, sChunks, sTimer, sElapsed, sPromise,
                 pmVars, lwcVars, svcVars, distVars, rdapVars, mrgVars, moreVars>>

\* What axios.get ends with: a response whose data holds a record ("record"),
\* an error message of the API ("apierror"), something else ("other"), or
\* nothing (null); an AxiosError, with or without a message of the server;
\* another Error; or a thrown value that is not an Error.
HttpOutcome(kind, body, message, serverMessage) ==
  [kind |-> kind, body |-> body, message |-> message, serverMessage |-> serverMessage]
HttpOutcomes ==
  { HttpOutcome("response", body, Undefined, Undefined) :
      body \in {"record", "apierror", "other", "null"} }
  \cup { HttpOutcome("axios", Undefined, "timeout of 10000ms exceeded", sm) :
           sm \in {Undefined, "Invalid API key"} }
  \cup { HttpOutcome("error", Undefined, "socket hang up", Undefined),
         HttpOutcome("error", Undefined, "", Undefined),
         HttpOutcome("value", Undefined, Undefined, Undefined) }

\* The errorMessage of the catch clause of queryWhoisXml / queryJsonWhois.
CatchMessage(o) ==
  IF o.kind = "axios"
    THEN IF o.serverMessage # Undefined THEN o.serverMessage ELSE o.message
  ELSE IF o.kind = "error" THEN o.message
  ELSE "Unknown error"

\* queryWhoisXml / queryJsonWhois after axios.get has settled.
KeyedResponse(p, domain, o) ==
  IF o.kind # "response" THEN CatchToResponse(p, CatchMessage(o))
  ELSE IF o.body = "null"
    THEN CatchToResponse(p, "Cannot read properties of null")
  ELSE IF o.body = "apierror" THEN Returns(Failure(p, "API error"))
  ELSE IF o.body = "other" THEN Returns(Failure(p, "Failed to parse API response"))
  ELSE Returns(ProviderResponse(p, TRUE, WhoisData(domain, "RegA", NoArray, NoArray),
                                Undefined, 1))

\* queryWhoisXml / queryJsonWhois up to the first await.
QueryKeyed(p, domain, hasKey) ==
  /\ qPc = "idle"
  /\ qProvider' = p
  /\ qDomain' = domain
  /\ IF ~hasKey
       THEN /\ qPc' = "done"
            /\ qResult' = Returns(MissingKeyResponse(p))
       ELSE /\ qPc' = "http"
            /\ qResult' = NotEnded
  /\ UNCHANGED <<sock, sData, sChunks, sTimer, sElapsed, sPromise,
                 pmVars, lwcVars, svcVars, distVars, rdapVars, mrgVars, moreVars>>

\* axios.get settles and the provider function runs to its end.
HttpSettles(o) ==
  /\ qPc = "http"
  /\ qPc' = "done"
  /\ qResult' = KeyedResponse(qProvider, qDomain, o)
  /\ UNCHANGED <<qProvider, qDomain, sock, sData, sChunks, sTimer, sElapsed, sPromise,
                 pmVars, lwcVars, svcVars, distVars, rdapVars, mrgVars, moreVars>>

\* Time passes; a timer that is due fires first.
SockTick ==
  /\ qPc \in {"socket", "done"}
  /\ sElapsed < MaxElapsed
  /\ ~(sTimer /\ sElapsed >= SockTimeout)
  /\ sElapsed' = sElapsed + 1
  /\ UNCHANGED <<qProvider, qPc, qDomain, sock, sData, sChunks, sTimer, sPromise, qResult,
                 pmVars, lwcVars, svcVars, distVars, rdapVars, mrgVars, moreVars>>

SockVarsInit ==
  /\ qProvider = "tredis"
  /\ qPc = "idle"
  /\ qDomain = ""
  /\ sock = "none"
  /\ sData = ""
  /\ sChunks = 0
  /\ sTimer = FALSE
  /\ sElapsed = 0
  /\ sPromise = Pending
  /\ qResult = NotEnded

(***************************************************************************)
(* rdapLookup: unnamed/part_023 (follows redirects) and                    *)
(* whois-api-2/server.js (one request)                                     *)
(***************************************************************************)
maxRedirects == 5
RDAP_TIMEOUT_MS == 30000
RdapClockStep == RDAP_TIMEOUT_MS \div 2
\* The idle time of a request is followed up to here.
MaxIdle == RDAP_TIMEOUT_MS + RdapClockStep

RdapModules == {"part_023", "server.js"}
RedirectStatuses == {301, 302, 307, 308}
RdapStatuses == RedirectStatuses \cup {200, 404}

\* makeRequest: `if (redirectCount > maxRedirects)`
TooManyRedirectsNever(redirectCount) == FALSE
TooManyRedirects(redirectCount) == redirectCount > maxRedirects

\* makeRequest(requestUrl, redirectCount)
makeRequest(redirectCount) ==
  /\ rRedirects' = redirectCount
  /\ IF TooManyRedirects(redirectCount)
       THEN /\ rPromise' = Reject(rPromise, "Too many redirects")
            /\ rPc' = "settled"
            /\ UNCHANGED <<rRequests, rIdle, rTimeoutEvent>>
       ELSE /\ rRequests' = rRequests + 1
            /\ rPc' = "request"
            /\ rIdle' = 0
            /\ rTimeoutEvent' = FALSE
            /\ UNCHANGED rPromise

\* rdapLookup(ip): the promise is created and the first request sent.
RdapStart ==
  /\ rPc = "idle"
  /\ IF rdapModule = "part_023"
       THEN makeRequest(0)
       ELSE /\ rRequests' = rRequests + 1
            /\ rPc' = "request"
            /\ UNCHANGED <<rRedirects, rPromise, rIdle, rTimeoutEvent>>
  /\ UNCHANGED <<rdapModule, pmVars, lwcVars, svcVars, distVars, sockVars, mrgVars, moreVars>>

\* The callback of https.get: the status line and headers of a response.
RdapResponse(status, hasLocation) ==
  /\ rPc = "request"
  /\ IF rdapModule = "part_023" /\ status \in RedirectStatuses
       THEN IF ~hasLocation
              THEN /\ rPromise' = Reject(rPromise, "Redirect without location header")
                   /\ rPc' = "settled"
                   /\ UNCHANGED <<rRedirects, rRequests, rIdle, rTimeoutEvent>>
              ELSE makeRequest(rRedirects + 1)
     ELSE IF rdapModule = "part_023" /\ status # 200
       THEN /\ rPromise' = Reject(rPromise, "RDAP server returned status")
            /\ rPc' = "settled"
            /\ UNCHANGED <<rRedirects, rRequests, rIdle, rTimeoutEvent>>
     ELSE /\ rPc' = "body"
          /\ rIdle' = 0
          /\ rTimeoutEvent' = FALSE
          /\ UNCHANGED <<rRedirects, rRequests, rPromise>>
  /\ UNCHANGED <<rdapModule, pmVars, lwcVars, svcVars, distVars, sockVars, mrgVars, moreVars>>

\* response 'end': JSON.parse(data) succeeds or throws.
RdapBodyEnd(valid) ==
  /\ rPc = "body"
  /\ rPromise' = IF valid THEN Resolve(rPromise, "json")
                 ELSE Reject(rPromise, "Failed to parse RDAP response")
  /\ rPc' = "settled"
  /\ UNCHANGED <<rdapModule, rRedirects, rRequests, rIdle, rTimeoutEvent,
                 pmVars, lwcVars, svcVars, distVars, sockVars, mrgVars, moreVars>>

\* request 'error'
RdapError ==
  /\ rPc = "request"
  /\ rPromise' = Reject(rPromise, "RDAP lookup failed")
  /\ rPc' = "settled"
  /\ UNCHANGED <<rdapModule, rRedirects, rRequests, rIdle, rTimeoutEvent,
                 pmVars, lwcVars, svcVars, distVars, sockVars, mrgVars, moreVars>>

\* The socket has been idle for options.timeout: the request emits 'timeout'.
\* No listener is registered, and nothing destroys the request.
RdapSocketTimeout ==
  /\ rPc \in {"request", "body"}
  /\ rIdle >= RDAP_TIMEOUT_MS
  /\ ~rTimeoutEvent
  /\ rTimeoutEvent' = TRUE
  /\ UNCHANGED <<rdapModule, rPc, rRedirects, rRequests, rPromise, rIdle,
                 pmVars, lwcVars, svcVars, distVars, sockVars, mrgVars, moreVars>>

\* Time passes without a byte from the server; a due 'timeout' comes first.
RdapTick ==
  /\ rPc \in {"request", "body"}
  /\ rIdle < MaxIdle
  /\ ~(rIdle >= RDAP_TIMEOUT_MS /\ ~rTimeoutEvent)
  /\ rIdle' = rIdle + RdapClockStep
  /\ UNCHANGED <<rdapModule, rPc, rRedirects, rRequests, rPromise, rTimeoutEvent,
                 pmVars, lwcVars, svcVars, distVars, sockVars, mrgVars, moreVars>>

RdapVarsIdle ==
  /\ rdapModule = "part_023"
  /\ rPc = "idle"
  /\ rRedirects = 0
  /\ rRequests = 0
  /\ rPromise = Pending
  /\ rIdle = 0
  /\ rTimeoutEvent = FALSE

(***************************************************************************)
(* mergeWhoisData applied to the responses of up to MaxResponses providers *)
(***************************************************************************)
MaxResponses == 3

\* The data of the responses handed to mergeWhoisData.
MergeData ==
  { WhoisData("example.com", "RegA", NoArray, Array(<<"active">>)),
    WhoisData("", "RegB", Array(<<"ns1", "ns2", "ns1">>), Array(<<"active", "locked">>)),
    WhoisData(Undefined, "", Array(<<"ns2", "ns3">>), Array(<<>>)),
    WhoisData("example.com", Undefined, Array(<<>>), NoArray) }
MergeResponses ==
  { ProviderResponse("native", TRUE, data, Undefined, 1) : data \in MergeData }
  \cup { ProviderResponse("native", FALSE, NullData, "Connection timeout", 1),
         ProviderResponse("native", TRUE, NullData, Undefined, 1) }
MergeInputs ==
  UNION { [1 .. n -> MergeResponses] : n \in 0 .. MaxResponses }

\* mergeWhoisData(responses) is called and returns.
MergeApply ==
  /\ mPc = "idle"
  /\ mOut' = mergeWhoisData(mIn)
  /\ mPc' = "merged"
  /\ UNCHANGED <<mIn, pmVars, lwcVars, svcVars, distVars, sockVars, rdapVars, moreVars>>

MrgVarsIdle ==
  /\ mPc = "idle"
  /\ mIn = <<>>
  /\ mOut = NullData

(***************************************************************************)
(* parseRdapResponse: network.cidr                                         *)
(***************************************************************************)
\* The most entries of cidr0_cidrs.
MaxCidrs == 3

\* A template literal renders an undefined value as the text "undefined".
Interpolate(value) == IF value = Undefined THEN "undefined" ELSE value

CidrEntry(v4prefix, v6prefix, length) ==
  [v4prefix |-> v4prefix, v6prefix |-> v6prefix, length |-> length]
CidrEntries ==
  { CidrEntry("93.184.216.0", Undefined, 24), CidrEntry("10.0.0.0", Undefined, 8),
    CidrEntry(Undefined, "2001:db8::", 32), CidrEntry(Undefined, "2606:2800::", 48) }
CidrLists == UNION { [1 .. n -> CidrEntries] : n \in 0 .. MaxCidrs }

\* Array.prototype.join
RECURSIVE join(_, _)
join(items, sep) ==
  IF Len(items) = 0 THEN ""
  ELSE IF Len(items) = 1 THEN items[1]
  ELSE items[1] \o sep \o join(Tail(items), sep)

\* c => `${c.v4prefix}/${c.length}`
RenderCidr(c) == Interpolate(c.v4prefix) \o "/" \o ToString(c.length)

\* rdap.cidr0_cidrs ? rdap.cidr0_cidrs.map(...).join(', ') : ''
NetworkCidr(cidrs) ==
  IF ~cidrs.defined THEN ""
  ELSE join([k \in 1 .. Len(cidrs.items) |-> RenderCidr(cidrs.items[k])], ", ")

\* parseRdapResponse(rdap) runs.
ParseRdap ==
  /\ cPc = "idle"
  /\ cOut' = NetworkCidr(cIn)
  /\ cPc' = "parsed"
  /\ UNCHANGED <<cIn, pmVars, lwcVars, svcVars, distVars, newVars, cacheOpVars, selVars, routeVars>>

CidrVarsIdle ==
  /\ cPc = "idle"
  /\ cIn = NoArray
  /\ cOut = ""

NoOp == [op |-> "none", domain |-> ""]

CacheOpVarsIdle ==
  /\ kMax = MaxKeys
  /\ kOps = 0
  /\ kLast = NoOp

\* How many endpoints the selector is configured with, at most.
NEndpoints == 3
\* How many calls of ApiSelector.query run side by side.
NSelCalls == 2

SelCalls == 1 .. NSelCalls
NoApi == 0
SelIdle == [pc |-> "idle", endpoint |-> NoApi, fallbackEndpoint |-> NoApi,
            sent |-> <<>>, errorMessage |-> "", fallbackError |-> "",
            result |-> [success |-> FALSE, usedApi |-> NoApi, error |-> ""]]

SelVarsIdle ==
  /\ eHealthy = [e \in 1 .. NEndpoints |-> TRUE]
  /\ selCall = [c \in SelCalls |-> SelIdle]

\* RATE_LIMIT_MAX and RATE_LIMIT_WINDOW, scaled down.
RouteRateMax == 3
RouteRateWindow == 2
\* CAPTCHA_RATE_LIMIT_THRESHOLD and CAPTCHA_RATE_LIMIT_WINDOW, scaled down.
CaptchaThreshold == 2
CaptchaWindow == 3
\* The clock stops here.
MaxRouteNow == 4
\* How many requests of one ip await verifyCaptcha at a time.
MaxPending == 1

Ips == {"10.0.0.1", "unknown"}
RouteModules == {"route.ts", "part_022"}
\* Map.get(ip) of an ip the map has no entry for.
NoLimit == [count |-> 0, resetTime |-> -1]
NoWindow == [start |-> -1, n |-> 0, free |-> 0]
NoRequest == [ip |-> "", flip |-> FALSE, admitted |-> FALSE, captchaRequired |-> FALSE,
              verified |-> FALSE, status |-> 0, lookup |-> FALSE]

RouteVarsIdle ==
  /\ routeModule = "route.ts"
  /\ rNow = 0
  /\ rateLimitMap = [ip \in Ips |-> NoLimit]
  /\ captchaRateLimitMap = [ip \in Ips |-> NoLimit]
  /\ rPending = [ip \in Ips |-> <<>>]
  /\ rLast = NoRequest
  /\ hRate = [ip \in Ips |-> NoWindow]
  /\ hCaptcha = [ip \in Ips |-> NoWindow]

MoreVarsIdle == CidrVarsIdle /\ CacheOpVarsIdle /\ SelVarsIdle /\ RouteVarsIdle

(***************************************************************************)
(* CacheService: set, delete and clear                                     *)
(***************************************************************************)
\* A maxKeys at which a tenth of the keys is more than one key.
FullKeys == 20
\* How many operations a run makes.
MaxOps == 3

StoredResult == WhoisResult("example.com", FALSE, NullData, <<>>, <<>>)

\* The cache after set() of "d1" .. "d<n>", in this order.
FilledCache(n) ==
  [k \in 1 .. n |-> [key |-> generateKey("d" \o ToString(k)), value |-> StoredResult]]

SetDomains == {"d1", " D20", "new1", "new2", "new3"}
DeleteDomains == {"d1", "d10", "new1"}

\* cache.set(domain, result)
CacheServiceSet(domain) ==
  /\ kOps < MaxOps
  /\ nodeCache' = CacheSetMax(nodeCache, kMax, domain, StoredResult)
  /\ kOps' = kOps + 1
  /\ kLast' = [op |-> "set", domain |-> domain]
  /\ UNCHANGED <<kMax, serviceModule, svcPc, svcArgs, svcDomain, task, svcResult,
                 svcCacheRead, pmVars, lwcVars, distVars, newVars, cidrVars, selVars, routeVars>>

\* cache.delete(domain)
CacheServiceDelete(domain) ==
  /\ kOps < MaxOps
  /\ nodeCache' = CacheDel(nodeCache, generateKey(domain))
  /\ kOps' = kOps + 1
  /\ kLast' = [op |-> "delete", domain |-> domain]
  /\ UNCHANGED <<kMax, serviceModule, svcPc, svcArgs, svcDomain, task, svcResult,
                 svcCacheRead, pmVars, lwcVars, distVars, newVars, cidrVars, selVars, routeVars>>

\* cache.clear()
CacheServiceClear ==
  /\ kOps < MaxOps
  /\ nodeCache' = <<>>
  /\ kOps' = kOps + 1
  /\ kLast' = [op |-> "clear", domain |-> ""]
  /\ UNCHANGED <<kMax, serviceModule, svcPc, svcArgs, svcDomain, task, svcResult,
                 svcCacheRead, pmVars, lwcVars, distVars, newVars, cidrVars, selVars, routeVars>>

(***************************************************************************)
(* ApiSelector                                                             *)
(***************************************************************************)
RequestErrors == {"timeout of 30000ms exceeded", "connect ECONNREFUSED"}

\* getRandomEndpoint(): the endpoints Math.random() can select.  The list
\* of endpoints is never empty: split(',') of a non-empty string has an
\* element, and the default list has three.
RandomEndpoints(healthy) ==
  LET healthyEndpoints == {e \in DOMAIN healthy : healthy[e]}
  IN  IF healthyEndpoints = {} THEN DOMAIN healthy ELSE healthyEndpoints

\* fallbackEndpoint && fallbackEndpoint.name !== endpoint.name
IsFallbackAny(fallbackEndpoint, endpoint) == TRUE
IsFallback(fallbackEndpoint, endpoint) == fallbackEndpoint # endpoint

\* One endpoint's health check settles: checkAllEndpoints, every 30 s.
CheckEndpoint(e, isHealthy) ==
  /\ eHealthy' = [eHealthy EXCEPT ![e] = isHealthy]
  /\ UNCHANGED <<selCall, pmVars, lwcVars, svcVars, distVars, newVars, cidrVars, cacheOpVars, routeVars>>

\* query() up to its first await.
SelQuery(c, endpoint) ==
  /\ selCall[c].pc = "idle"
  /\ endpoint \in RandomEndpoints(eHealthy)
  /\ selCall' = [selCall EXCEPT ![c] = [@ EXCEPT !.pc = "first",
                                               !.endpoint = endpoint,
                                               !.sent = <<endpoint>>]]
  /\ UNCHANGED <<eHealthy, pmVars, lwcVars, svcVars, distVars, newVars, cidrVars, cacheOpVars, routeVars>>

\* The first request is answered.
SelFirstResolves(c, success) ==
  /\ selCall[c].pc = "first"
  /\ selCall' = [selCall EXCEPT ![c] =
       [@ EXCEPT !.pc = "done",
                 !.result = [success |-> success, usedApi |-> selCall[c].endpoint, error |-> ""]]]
  /\ UNCHANGED <<eHealthy, pmVars, lwcVars, svcVars, distVars, newVars, cidrVars, cacheOpVars, routeVars>>

\* The first request throws: the catch block up to the second await, or
\* to the return when there is no other endpoint.
SelFirstRejects(c, errorMessage, fallbackEndpoint) ==
  LET endpoint == selCall[c].endpoint
      marked   == [eHealthy EXCEPT ![endpoint] = FALSE]
  IN  /\ selCall[c].pc = "first"
      /\ fallbackEndpoint \in RandomEndpoints(marked)
      /\ eHealthy' = marked
      /\ IF IsFallback(fallbackEndpoint, endpoint)
         THEN selCall' = [selCall EXCEPT ![c] =
                [@ EXCEPT !.pc = "fallback",
                          !.errorMessage = errorMessage,
                          !.fallbackEndpoint = fallbackEndpoint,
                          !.sent = Append(@, fallbackEndpoint)]]
         ELSE selCall' = [selCall EXCEPT ![c] =
                [@ EXCEPT !.pc = "done",
                          !.errorMessage = errorMessage,
                          !.result = [success |-> FALSE, usedApi |-> endpoint,
                                      error |-> errorMessage]]]
      /\ UNCHANGED <<pmVars, lwcVars, svcVars, distVars, newVars, cidrVars, cacheOpVars, routeVars>>

\* The fallback request is answered.
SelFallbackResolves(c, success) ==
  /\ selCall[c].pc = "fallback"
  /\ selCall' = [selCall EXCEPT ![c] =
       [@ EXCEPT !.pc = "done",
                 !.result = [success |-> success, usedApi |-> selCall[c].fallbackEndpoint,
                             error |-> ""]]]
  /\ UNCHANGED <<eHealthy, pmVars, lwcVars, svcVars, distVars, newVars, cidrVars, cacheOpVars, routeVars>>

\* The fallback request throws too.
SelFallbackRejects(c, fallbackError) ==
  /\ selCall[c].pc = "fallback"
  /\ eHealthy' = [eHealthy EXCEPT ![selCall[c].fallbackEndpoint] = FALSE]
  /\ selCall' = [selCall EXCEPT ![c] =
       [@ EXCEPT !.pc = "done",
                 !.fallbackError = fallbackError,
                 !.result = [success |-> FALSE, usedApi |-> selCall[c].endpoint,
                             error |-> selCall[c].errorMessage]]]
  /\ UNCHANGED <<pmVars, lwcVars, svcVars, distVars, newVars, cidrVars, cacheOpVars, routeVars>>

(***************************************************************************)
(* The routes: /api/whois and /api/v2/whois                                *)
(***************************************************************************)
\* limit.count >= RATE_LIMIT_MAX
AtLimitLate(count) == count > RouteRateMax
AtLimit(count) == count >= RouteRateMax

\* checkRateLimit(ip): what it returns and the map it leaves.
checkRateLimit(map, ip, at) ==
  LET limit == map[ip]
  IN  IF limit = NoLimit \/ at > limit.resetTime
      THEN [ok |-> TRUE,
            map |-> [map EXCEPT ![ip] = [count |-> 1, resetTime |-> at + RouteRateWindow]]]
      ELSE IF AtLimit(limit.count)
      THEN [ok |-> FALSE, map |-> map]
      ELSE [ok |-> TRUE, map |-> [map EXCEPT ![ip].count = @ + 1]]

\* limit.count >= CAPTCHA_RATE_LIMIT_THRESHOLD
CaptchaDueLate(count) == count > CaptchaThreshold
CaptchaDue(count) == count >= CaptchaThreshold

\* checkCaptchaRequired(ip): what it returns and the map it leaves.
checkCaptchaRequired(map, ip, at) ==
  LET limit == map[ip]
  IN  IF limit = NoLimit \/ at > limit.resetTime
      THEN [required |-> FALSE,
            map |-> [map EXCEPT ![ip] = [count |-> 1, resetTime |-> at + CaptchaWindow]]]
      ELSE IF CaptchaDue(limit.count)
      THEN [required |-> TRUE, map |-> map]
      ELSE [required |-> FALSE, map |-> [map EXCEPT ![ip].count = @ + 1]]

\* resetCaptchaLimit(ip)
resetCaptchaLimit(map, ip) == [map EXCEPT ![ip] = NoLimit]

\* The end of both handlers: 400 without a domain, the lookup with one.
Served(domain, base) ==
  IF domain = ""
  THEN [base EXCEPT !.status = 400, !.lookup = FALSE]
  ELSE [base EXCEPT !.status = 200, !.lookup = TRUE]

\* History: a request of this ip has come to checkRateLimit at this time.
RateSeen(h, at, admitted) ==
  IF h.start = -1 \/ at > h.start + RouteRateWindow
  THEN [start |-> at, n |-> IF admitted THEN 1 ELSE 0, free |-> 0]
  ELSE [h EXCEPT !.n = @ + (IF admitted THEN 1 ELSE 0)]

\* History: a request of this ip has come to checkCaptchaRequired at this
\* time; free says that it went on to the query without a captcha.
CaptchaSeen(h, at, free) ==
  IF h.start = -1 \/ at > h.start + CaptchaWindow
  THEN [start |-> at, n |-> 1, free |-> IF free THEN 1 ELSE 0]
  ELSE [h EXCEPT !.n = @ + 1, !.free = @ + (IF free THEN 1 ELSE 0)]

\* GET up to its first await, or to its response when it awaits nothing
\* before the lookup.
RouteGet(ip, domain, captchaToken) ==
  LET rate    == checkRateLimit(rateLimitMap, ip, rNow)
      captcha == checkCaptchaRequired(captchaRateLimitMap, ip, rNow)
      base    == [ip |-> ip, flip |-> ~rLast.flip, admitted |-> rate.ok,
                  captchaRequired |-> FALSE, verified |-> FALSE,
                  status |-> 429, lookup |-> FALSE]
  IN  /\ rateLimitMap' = rate.map
      /\ hRate' = [hRate EXCEPT ![ip] = RateSeen(@, rNow, rate.ok)]
      /\ IF ~rate.ok
         THEN /\ rLast' = base
              /\ UNCHANGED <<captchaRateLimitMap, rPending, hCaptcha>>
         ELSE IF routeModule = "route.ts"
         THEN /\ rLast' = Served(domain, base)
              /\ UNCHANGED <<captchaRateLimitMap, rPending, hCaptcha>>
         ELSE /\ captchaRateLimitMap' = captcha.map
              /\ hCaptcha' = [hCaptcha EXCEPT ![ip] = CaptchaSeen(@, rNow, ~captcha.required)]
              /\ IF ~captcha.required
                 THEN /\ rLast' = Served(domain, base)
                      /\ UNCHANGED rPending
                 ELSE IF ~captchaToken
                 THEN /\ rLast' = [base EXCEPT !.captchaRequired = TRUE]
                      /\ UNCHANGED rPending
                 ELSE /\ Len(rPending[ip]) < MaxPending
                      /\ rPending' = [rPending EXCEPT ![ip] = Append(@, domain)]
                      /\ rLast' = [base EXCEPT !.captchaRequired = TRUE, !.status = 0]
      /\ UNCHANGED <<routeModule, rNow, pmVars, lwcVars, svcVars, distVars, newVars,
                     cidrVars, cacheOpVars, selVars>>

\* verifyCaptcha has settled for the oldest waiting request of this ip: GET
\* from there to its response or to the query.
RouteVerified(ip, isValidCaptcha) ==
  LET domain == Head(rPending[ip])
      base   == [ip |-> ip, flip |-> ~rLast.flip, admitted |-> TRUE,
                 captchaRequired |-> TRUE, verified |-> isValidCaptcha,
                 status |-> 429, lookup |-> FALSE]
  IN  /\ rPending[ip] # <<>>
      /\ rPending' = [rPending EXCEPT ![ip] = Tail(@)]
      /\ IF isValidCaptcha
         THEN /\ captchaRateLimitMap' = resetCaptchaLimit(captchaRateLimitMap, ip)
              /\ hCaptcha' = [hCaptcha EXCEPT ![ip] = NoWindow]
              /\ rLast' = Served(domain, base)
         ELSE /\ rLast' = base
              /\ UNCHANGED <<captchaRateLimitMap, hCaptcha>>
      /\ UNCHANGED <<routeModule, rNow, rateLimitMap, hRate, pmVars, lwcVars, svcVars,
                     distVars, newVars, cidrVars, cacheOpVars, selVars>>

\* Time passes.
RouteTick ==
  /\ rNow < MaxRouteNow
  /\ rNow' = rNow + 1
  /\ UNCHANGED <<routeModule, rateLimitMap, captchaRateLimitMap, rPending, rLast,
                 hRate, hCaptcha, pmVars, lwcVars, svcVars, distVars, newVars,
                 cidrVars, cacheOpVars, selVars>>

(***************************************************************************)
(* Specifications                                                          *)
(***************************************************************************)
PmInit ==
  /\ PmVarsInit
  /\ LwcVarsInit /\ lookupModule = "part_005"
  /\ SvcVarsInit /\ serviceModule = "part_011"
  /\ DistVarsIdle
  /\ MoreVarsIdle
  /\ SockVarsInit /\ RdapVarsIdle /\ MrgVarsIdle

PmNext ==
  \/ \E c \in Calls : ExecuteBegin(c)
  \/ \E c \in Calls : LookupResolve(c)
  \/ \E c \in Calls, err \in LookupErrors : LookupReject(c, err)
  \/ \E c \in Calls : ExecuteReturn(c)
  \/ Tick

SpecPM == PmInit /\ [][PmNext]_vars

LwcInit ==
  /\ PmVarsInit
  /\ LwcVarsInit
  /\ SvcVarsInit /\ serviceModule = "part_011"
  /\ DistVarsIdle
  /\ MoreVarsIdle
  /\ SockVarsInit /\ RdapVarsIdle /\ MrgVarsIdle

LwcNext ==
  \/ \E r \in CacheCalls, d \in Domains : LwcBegin(r, d)
  \/ \E r \in CacheCalls, res \in LookupResults : LwcLookupDone(r, res)
  \/ \E r \in CacheCalls, res \in LookupResults : LwcLookupDoneTs(r, res)
  \/ \E r \in CacheCalls : LwcReturn(r)
  \/ \E k \in RedisKeys : RedisExpire(k)

SpecCache == LwcInit /\ [][LwcNext]_vars

SvcInit ==
  /\ PmVarsInit
  /\ LwcVarsInit /\ lookupModule = "part_005"
  /\ SvcVarsInit
  /\ DistVarsIdle
  /\ MoreVarsIdle
  /\ SockVarsInit /\ RdapVarsIdle /\ MrgVarsIdle

SvcNext ==
  \/ \E d \in SvcDomains, f \in BOOLEAN, e \in EnabledChoices, n \in 0 .. MaxRetries :
       \E k \in SUBSET (e \cap KeyedProviders) : SvcBegin(d, f, e, n, k)
  \/ \E d \in SvcDomains, f \in BOOLEAN, e \in EnabledChoices, n \in 0 .. MaxRetries :
       \E k \in SUBSET (e \cap KeyedProviders) : SvcBeginTs(d, f, e, n, k)
  \/ \E p \in ProviderNames : \E o \in ProviderOutcomes(p, p \in svcArgs.keys) :
       ProviderSettles(p, o)
  \/ \E p \in ProviderNames : BackoffElapsed(p)
  \/ SvcMerge
  \/ SvcMergeTs
  \/ SvcReturn
  \/ \E key \in SvcKeys : NodeCacheExpire(key)

SpecSvc == SvcInit /\ [][SvcNext]_vars

DistInit ==
  /\ PmVarsInit
  /\ LwcVarsInit
  /\ SvcVarsInit /\ serviceModule = "part_011"
  /\ DistVarsInit
  /\ MoreVarsIdle
  /\ SockVarsInit /\ RdapVarsIdle /\ MrgVarsIdle

DistNext ==
  \/ \E d \in Domains : \E k \in 1 .. Len(endpoints) : DForward(d, k)
  \/ \E d \in Domains : DLocalOnly(d)
  \/ \E st \in Statuses : HeadersArrive(st)
  \/ FetchRejects
  \/ \E t \in dTimers : TimerFires(t)
  \/ FetchAborted
  \/ \E b \in RemoteBodies \cup {Malformed} : BodyArrives(b)
  \/ \E r \in CacheCalls, result \in LookupResults : LwcLookupDone(r, result)
  \/ \E r \in CacheCalls, result \in LookupResults : LwcLookupDoneTs(r, result)
  \/ DLocalReturns
  \/ DReturn
  \/ ClockTick

SpecDist == DistInit /\ [][DistNext]_vars

SockInit ==
  /\ PmVarsInit
  /\ LwcVarsInit /\ lookupModule = "part_005"
  /\ SvcVarsInit /\ serviceModule = "part_011"
  /\ DistVarsIdle
  /\ MoreVarsIdle
  /\ SockVarsInit /\ RdapVarsIdle /\ MrgVarsIdle

SockNext ==
  \/ \E d \in SockDomains : QueryTredis(d)
  \/ \E d \in SockDomains : QueryNative(d)
  \/ SockConnect
  \/ \E chunk \in Chunks : SockData(chunk)
  \/ TredisEnd
  \/ \E err \in SocketErrors : TredisError(err)
  \/ TredisClose
  \/ TredisTimeout
  \/ \E err \in SocketErrors \cup {""} : NativeCallback(err)
  \/ NativeTimeout
  \/ QueryResumes
  \/ \E p \in KeyedProviders, d \in SockDomains, hasKey \in BOOLEAN : QueryKeyed(p, d, hasKey)
  \/ \E o \in HttpOutcomes : HttpSettles(o)
  \/ SockTick

SpecSock == SockInit /\ [][SockNext]_vars

RdapInit ==
  /\ PmVarsInit
  /\ LwcVarsInit /\ lookupModule = "part_005"
  /\ SvcVarsInit /\ serviceModule = "part_011"
  /\ DistVarsIdle
  /\ MoreVarsIdle
  /\ SockVarsInit /\ MrgVarsIdle
  /\ rdapModule \in RdapModules
  /\ rPc = "idle"
  /\ rRedirects = 0
  /\ rRequests = 0
  /\ rPromise = Pending
  /\ rIdle = 0
  /\ rTimeoutEvent = FALSE

RdapNext ==
  \/ RdapStart
  \/ \E status \in RdapStatuses, hasLocation \in BOOLEAN : RdapResponse(status, hasLocation)
  \/ \E valid \in BOOLEAN : RdapBodyEnd(valid)
  \/ RdapError
  \/ RdapSocketTimeout
  \/ RdapTick

SpecRdap == RdapInit /\ [][RdapNext]_vars

MergeInit ==
  /\ PmVarsInit
  /\ LwcVarsInit /\ lookupModule = "part_005"
  /\ SvcVarsInit /\ serviceModule = "part_011"
  /\ DistVarsIdle
  /\ MoreVarsIdle
  /\ SockVarsInit /\ RdapVarsIdle
  /\ mPc = "idle"
  /\ mIn \in MergeInputs
  /\ mOut = NullData

MergeNext == MergeApply

SpecMerge == MergeInit /\ [][MergeNext]_vars

CidrInit ==
  /\ PmVarsInit
  /\ LwcVarsInit /\ lookupModule = "part_005"
  /\ SvcVarsInit /\ serviceModule = "part_011"
  /\ DistVarsIdle
  /\ SockVarsInit /\ MrgVarsIdle
  /\ rdapModule \in RdapModules
  /\ rPc = "idle"
  /\ rRedirects = 0
  /\ rRequests = 0
  /\ rPromise = Pending
  /\ rIdle = 0
  /\ rTimeoutEvent = FALSE
  /\ cPc = "idle"
  /\ cIn \in {NoArray} \cup {Array(items) : items \in CidrLists}
  /\ cOut = ""
  /\ CacheOpVarsIdle
  /\ SelVarsIdle
  /\ RouteVarsIdle

CidrNext == ParseRdap

SpecCidr == CidrInit /\ [][CidrNext]_vars

\* The cache is new, or holds FullKeys entries set one after the other.
CacheOpsInit ==
  /\ PmVarsInit
  /\ LwcVarsInit /\ lookupModule = "part_005"
  /\ serviceModule = "part_011"
  /\ svcPc = "idle"
  /\ svcArgs = SvcArgs("example.com", FALSE, {}, 1, {})
  /\ svcDomain = ""
  /\ task = [p \in ProviderNames |-> TaskOff]
  /\ svcResult = NoWhoisResult
  /\ svcCacheRead = FALSE
  /\ DistVarsIdle
  /\ SockVarsInit /\ RdapVarsIdle /\ MrgVarsIdle
  /\ CidrVarsIdle
  /\ \/ kMax \in 1 .. MaxKeys /\ nodeCache = <<>>
     \/ kMax = FullKeys /\ nodeCache \in {FilledCache(FullKeys), FilledCache(FullKeys - 1)}
  /\ kOps = 0
  /\ kLast = NoOp
  /\ SelVarsIdle
  /\ RouteVarsIdle

CacheOpsNext ==
  \/ \E d \in SetDomains : CacheServiceSet(d)
  \/ \E d \in DeleteDomains : CacheServiceDelete(d)
  \/ CacheServiceClear

SpecCacheOps == CacheOpsInit /\ [][CacheOpsNext]_vars

\* The selector after construction, with one endpoint or more.
SelInit ==
  /\ PmVarsInit
  /\ LwcVarsInit /\ lookupModule = "part_005"
  /\ serviceModule = "part_011"
  /\ svcPc = "idle"
  /\ svcArgs = SvcArgs("example.com", FALSE, {}, 1, {})
  /\ svcDomain = ""
  /\ task = [p \in ProviderNames |-> TaskOff]
  /\ svcResult = NoWhoisResult
  /\ svcCacheRead = FALSE
  /\ nodeCache = <<>>
  /\ DistVarsIdle
  /\ SockVarsInit /\ RdapVarsIdle /\ MrgVarsIdle
  /\ CidrVarsIdle /\ CacheOpVarsIdle
  /\ \E n \in 1 .. NEndpoints : eHealthy = [e \in 1 .. n |-> TRUE]
  /\ selCall = [c \in SelCalls |-> SelIdle]
  /\ RouteVarsIdle

SelNext ==
  \/ \E e \in DOMAIN eHealthy, h \in BOOLEAN : CheckEndpoint(e, h)
  \/ \E c \in SelCalls, e \in DOMAIN eHealthy : SelQuery(c, e)
  \/ \E c \in SelCalls, ok \in BOOLEAN : SelFirstResolves(c, ok)
  \/ \E c \in SelCalls, msg \in RequestErrors, e \in DOMAIN eHealthy :
       SelFirstRejects(c, msg, e)
  \/ \E c \in SelCalls, ok \in BOOLEAN : SelFallbackResolves(c, ok)
  \/ \E c \in SelCalls, msg \in RequestErrors : SelFallbackRejects(c, msg)

SpecSel == SelInit /\ [][SelNext]_vars

\* Either route, before its first request.
RouteInit ==
  /\ PmVarsInit
  /\ LwcVarsInit /\ lookupModule = "part_005"
  /\ serviceModule = "part_011"
  /\ svcPc = "idle"
  /\ svcArgs = SvcArgs("example.com", FALSE, {}, 1, {})
  /\ svcDomain = ""
  /\ task = [p \in ProviderNames |-> TaskOff]
  /\ svcResult = NoWhoisResult
  /\ svcCacheRead = FALSE
  /\ nodeCache = <<>>
  /\ DistVarsIdle
  /\ SockVarsInit /\ RdapVarsIdle /\ MrgVarsIdle
  /\ CidrVarsIdle /\ CacheOpVarsIdle /\ SelVarsIdle
  /\ routeModule \in RouteModules
  /\ rNow = 0
  /\ rateLimitMap = [ip \in Ips |-> NoLimit]
  /\ captchaRateLimitMap = [ip \in Ips |-> NoLimit]
  /\ rPending = [ip \in Ips |-> <<>>]
  /\ rLast = NoRequest
  /\ hRate = [ip \in Ips |-> NoWindow]
  /\ hCaptcha = [ip \in Ips |-> NoWindow]

RouteNext ==
  \/ \E ip \in Ips, domain \in {"", "example.com"}, captchaToken \in BOOLEAN :
       RouteGet(ip, domain, captchaToken)
  \/ \E ip \in Ips, isValidCaptcha \in BOOLEAN : RouteVerified(ip, isValidCaptcha)
  \/ RouteTick

SpecRoute == RouteInit /\ [][RouteNext]_vars

(***************************************************************************)
(* Properties of the provider manager                                      *)
(***************************************************************************)
\* isReady() of provider p, were it asked now.
Ready(p) ==
  IF now - startTime[p] > RateWindow THEN 0 < RateLimit
  ELSE requests[p] < RateLimit

\* The providers call c may still use: not yet tried by it and under quota.
Eligible(c) == {p \in Providers : p \notin triedProviders[c] /\ Ready(p)}

\* The place of provider p in the rotation that starts at the pointer.
RotationRank(p) == (p - currentIndex + NProviders) % NProviders

\* Call c dispatches a lookup in this step.
Dispatches(c) == pc'[c] = "lookup" /\ attempts'[c] # attempts[c]

\* Call c settles in this step.
Settles(c) == pc[c] # "done" /\ pc'[c] = "done"

\* C1: while some provider is under quota and not yet tried by the call,
\* execute does not give up: it dispatches to the first such provider in
\* rotation order (providers over quota or already tried are passed over),
\* it goes on after a lookup that throws, and it resolves with the result
\* of the provider whose lookup resolves.
C1_FirstReadyProviderServes ==
  [][\A c \in Calls :
       /\ (Dispatches(c) =>
             /\ current'[c] \in Eligible(c)
             /\ \A q \in Eligible(c) : RotationRank(current'[c]) <= RotationRank(q))
       /\ ((Settles(c) /\ outcome'[c].kind = "rejected") => Eligible(c) = {})
       /\ ((Settles(c) /\ outcome'[c].kind = "resolved") =>
             /\ pc[c] = "lookup"
             /\ outcome'[c].provider = current[c]
             /\ \A k \in 1 .. (Len(attempts'[c]) - 1) : attempts'[c][k].result = "threw")
    ]_vars

\* Provider 0 was over quota, provider 1 threw, provider 2 was attempted and
\* its result returned.
C1_Witness ==
  \E c \in Calls :
    /\ pc[c] = "done"
    /\ outcome[c] = Settled("resolved", 2, NoError)
    /\ skipped[c] = {0}
    /\ Len(attempts[c]) = 2
    /\ attempts[c][1].provider = 1 /\ attempts[c][1].result = "threw"
    /\ attempts[c][2].provider = 2 /\ attempts[c][2].result = "resolved"

\* C5: between two resets of a provider's window at most RateLimit lookups
\* are dispatched to it, whatever the interleaving of the execute calls, and
\* a window is reset only once it has elapsed.
C5_QuotaPerWindow ==
  [][\A p \in Providers :
       /\ dispatched'[p] <= RateLimit
       /\ (startTime'[p] # startTime[p] => now - startTime[p] > RateWindow)
       /\ (requests'[p] < requests[p] => now - startTime[p] > RateWindow)
    ]_vars

\* A provider's quota is used up while two calls are in flight, and a
\* window has been reset.
C5_Witness ==
  /\ \E p \in Providers : dispatched[p] = RateLimit /\ startTime[p] > 0
  /\ \A c \in Calls : pc[c] = "lookup"

\* C6: a call that finds every provider over quota when it starts rejects
\* with the rate-limit error, and has invoked no lookup.
C6_RateLimitedFailsFast ==
  [][\A c \in Calls :
       /\ ((pc[c] = "idle" /\ pc'[c] # "idle" /\ \A p \in Providers : ~Ready(p)) =>
             /\ pc'[c] = "done"
             /\ outcome'[c] = Settled("rejected", NoProvider, RateLimitedError)
             /\ attempts'[c] = <<>>)
       /\ ((pc'[c] = "done" /\ outcome'[c].error = RateLimitedError) =>
             attempts'[c] = <<>>)
    ]_vars

\* A call has failed fast on the rate limit.
C6_Witness ==
  \E c \in Calls :
    /\ pc[c] = "done"
    /\ outcome[c] = Settled("rejected", NoProvider, RateLimitedError)
    /\ attempts[c] = <<>>
    /\ skipped[c] = Providers

(***************************************************************************)
(* Properties of lookupWhoisWithCache                                      *)
(***************************************************************************)
\* The failures that are a timeout, a rate limit or a refused connection.
TransientFailures ==
  { "No providers available (rate limited)",
    "WHOIS lookup failed: connect ECONNREFUSED",
    "Timeout: whois server Not Found" }

\* C2: the result of a lookup that failed with a timeout, a rate limit or a
\* refused connection is never in the cache, whatever else its error text
\* contains: no call returns such a failure having stored it, and no key
\* holds one.
C2_TransientNeverCached ==
  /\ \A k \in RedisKeys :
       redis[k].present => redis[k].value.error \notin TransientFailures
  /\ \A r \in CacheCalls :
       (lwcPc[r] = "done" /\ lwcReturned[r].error \in TransientFailures) =>
          LET e == redis[CacheKey(lookupModule, lwcDomain[r])]
          IN  e.present => e.value.error # lwcReturned[r].error

\* C3: a success is stored under the store's default TTL, a not-found
\* failure under NOT_FOUND_CACHE_TTL, and the two differ.
C3_NotFoundShorterTtl ==
  \A k \in RedisKeys :
    redis[k].present =>
      /\ (redis[k].value.status => redis[k].ttl = DefaultTtl)
      /\ (~redis[k].value.status =>
            /\ redis[k].ttl = ExplicitTtl(NOT_FOUND_CACHE_TTL)
            /\ redis[k].ttl # DefaultTtl)

(***************************************************************************)
(* Properties of lookupWhois and queryProvider                             *)
(***************************************************************************)
SvcKey == generateKey(svcDomain)
SvcStarts == svcPc = "idle" /\ svcPc' # "idle"
SvcFinishesQuery == svcPc = "querying" /\ svcPc' = "done"

\* C4: a lookup with options.force queries the providers even when the cache
\* holds an entry for the domain, stores its result when the result carries
\* data, and a following lookup without force for a cached domain returns the
\* cached result marked cached.
C4_ForceSkipsReadStillWrites ==
  [][ /\ (SvcStarts /\ svcArgs'.force /\ isValidDomain(svcDomain')
            /\ svcArgs'.enabled # {})
         => svcPc' = "querying"
      /\ (SvcFinishesQuery /\ svcArgs.force /\ svcResult'.data.present)
         => /\ CacheHas(nodeCache', SvcKey)
            /\ CacheValue(nodeCache', SvcKey) = svcResult'
      /\ (SvcStarts /\ ~svcArgs'.force /\ isValidDomain(svcDomain')
            /\ CacheHas(nodeCache, generateKey(svcDomain')))
         => /\ svcPc' = "done"
            /\ svcResult' = [CacheValue(nodeCache, generateKey(svcDomain'))
                               EXCEPT !.cached = TRUE] ]_vars

\* A forced lookup has returned data and the cache holds nothing for it.
C4_Witness ==
  /\ svcPc = "done"
  /\ svcArgs.force
  /\ svcResult.data.present
  /\ ~CacheHas(nodeCache, SvcKey)

\* C9: while the providers are queried, a step of one provider's query
\* leaves every other provider's query as it was and a settled response is
\* never changed; the merge runs only once every enabled provider's query has
\* settled, and on exactly one response per enabled provider, in priority
\* order.
C9_ParallelProvidersIndependent ==
  [][ /\ (svcPc = "querying" /\ svcPc' = "querying")
         => \A p \in ProviderNames :
              /\ task'[p] # task[p]
                 => \A q \in ProviderNames \ {p} : task'[q] = task[q]
              /\ task[p].state = "settled" => task'[p] = task[p]
      /\ SvcFinishesQuery
         => /\ \A p \in svcArgs.enabled : task[p].state = "settled"
            /\ Len(svcResult'.providers) = Cardinality(svcArgs.enabled)
            /\ \A p \in svcArgs.enabled :
                 \E k \in 1 .. Len(svcResult'.providers) :
                   /\ svcResult'.providers[k] = task[p].response
                   /\ svcResult'.providers[k].provider = p
                   /\ \A j \in 1 .. Len(svcResult'.providers) :
                        svcResult'.providers[j].provider = p => j = k ]_vars

\* One provider failed after its retries, its sibling succeeded afterwards,
\* and the merged result carries the sibling's data.
C9_Witness ==
  /\ svcPc = "done"
  /\ svcArgs.enabled = {"tredis", "native"}
  /\ Len(svcResult.providers) = 2
  /\ ~svcResult.providers[1].success
  /\ svcResult.providers[1].error = "Failed after 2 attempts: socket hang up"
  /\ svcResult.providers[2].success
  /\ task["native"].calls = 2
  /\ svcResult.data.present

Querying == svcPc \in {"querying", "done"}

LacksKey(p) ==
  /\ p \in svcArgs.enabled \cap KeyedProviders
  /\ p \notin svcArgs.keys
  /\ p \in KnownProviders(serviceModule)

\* C11: a provider whose credentials are missing is invoked exactly once in a
\* lookup and answers with the configuration error; and whenever a response
\* carries an error containing "not configured" or "API key", queryProvider
\* returns it at once: no backoff is armed and no further invocation follows.
C11_ConfigErrorNotRetried ==
  /\ [](Querying =>
          \A p \in ProviderNames :
            /\ (LacksKey(p) /\ svcArgs.retries >= 1 /\ task[p].state # "off")
               => /\ task[p].calls = 1
                  /\ task[p].waits = <<>>
                  /\ task[p].state = "settled" => task[p].response = MissingKeyResponse(p)
            /\ task[p].state = "backoff"
               => ~(includes(task[p].lastError, "not configured")
                      \/ includes(task[p].lastError, "API key")))
  /\ [][ (svcPc = "querying" /\ svcPc' = "querying")
         => \A p \in ProviderNames :
              (/\ task[p].state = "settled"
               /\ ~task[p].response.success
               /\ includes(task[p].response.error, "API key"))
              => task'[p] = task[p] ]_vars

\* whoisxml has no key and three attempts allowed: it was invoked once, its
\* sibling is still being retried.
C11_Witness ==
  /\ svcPc = "querying"
  /\ svcArgs.retries = 3
  /\ LacksKey("whoisxml")
  /\ task["whoisxml"].state = "settled"
  /\ task["whoisxml"].calls = 1
  /\ task["whoisxml"].response.error = "API key not configured"

(***************************************************************************)
(* Properties of distributedWhoisLookup                                    *)
(***************************************************************************)
ForwardFailed ==
  \/ dForward \in {"aborted", "network", "status", "malformed"}
  \/ dStatus # 0 /\ ~(dStatus \in 200 .. 299)

\* C7: once the forwarded call has failed (abort, network error, non-2xx
\* status, unparsable body) the call has run lookupWhoisWithCache exactly
\* once and what it returns is that local result; no call runs the local
\* lookup twice.
C7_ForwardFailureFallsBackOnce ==
  /\ [](/\ dLocalCalls <= 1
        /\ ForwardFailed
           => /\ dLocalCalls = 1
              /\ dPc \in {"local", "done"}
              /\ dPc = "done" => dResult.via = "local")
  /\ [][ (dPc = "local" /\ dPc' = "done")
         => dResult' = DistResult("local", lwcReturned[dLocal], NoEndpoint) ]_vars

\* The forward was aborted by the timer and the caller got the local result.
C7_Witness ==
  /\ dPc = "done"
  /\ dForward = "aborted"
  /\ dCall \in dAborted
  /\ dLocalCalls = 1
  /\ dResult.via = "local"
  /\ dResult.value.cached = FALSE

AwaitingForward == dPc \in {"fetch", "body"} /\ dCall \notin dAborted

\* C8: a call that still awaits its sibling (headers or body) sent its request
\* at most 30 s ago.
C8_ForwardBoundedByOuterTimeout ==
  AwaitingForward => clock - dSentAt <= FORWARD_TIMEOUT_MS

\* The headers arrived in time, the body has not, and the 30 s are over.
C8_Witness ==
  /\ dPc = "body"
  /\ dTimers = {}
  /\ clock - dSentAt > FORWARD_TIMEOUT_MS

\* Whether the promise of the socket query was rejected by its timer.
TimedOut ==
  /\ sPromise.state = "rejected"
  /\ sPromise.value \in {TredisTimeoutError, NativeTimeoutError}

\* C12: when the timeout of a socket query elapses before the query has
\* completed, the socket is forcibly closed, the call rejects with the timeout
\* error, and the caller receives it as a failed provider response.
C12_TimeoutClosesSocket ==
  TimedOut =>
    /\ sock \in {"destroyed", "closed"}
    /\ qPc = "done" => qResult = Returns(Failure(qProvider, sPromise.value))

C12_Witness ==
  /\ TimedOut
  /\ qProvider = "tredis"
  /\ sock = "destroyed"
  /\ qPc = "done"

\* C16: every provider entry point ends by returning a ProviderResponse,
\* whatever the transport did; it never throws, and a failure carries
\* success = false, an error and no data.
C16_ProviderNeverThrows ==
  /\ qResult.kind # "throw"
  /\ qPc = "done" =>
       /\ qResult.kind = "return"
       /\ qResult.response.provider = qProvider
       /\ qResult.response.success =>
            qResult.response.data.present /\ qResult.response.error = Undefined
       /\ ~qResult.response.success =>
            qResult.response.data = NullData /\ qResult.response.error # Undefined

C16_Witness ==
  /\ qPc = "done"
  /\ ~qResult.response.success
  /\ \/ sock = "errored"
     \/ TimedOut
     \/ qProvider \in KeyedProviders /\ qResult.response.error = "Unknown error"

\* C13: a request to which the server has not answered within the timeout is
\* cancelled and rdapLookup rejects: no request is still outstanding once its
\* socket has been idle for longer than the timeout.
C13_RdapTimeoutAborts ==
  rPc \in {"request", "body"} => rIdle <= RDAP_TIMEOUT_MS

C13_Witness ==
  /\ rPc = "request"
  /\ rIdle = RDAP_TIMEOUT_MS
  /\ rTimeoutEvent

\* C14: rdapLookup follows at most maxRedirects redirects and rejects with
\* "Too many redirects" on the next one, so that one lookup sends at most
\* maxRedirects + 1 requests.
C14_RedirectsBounded ==
  rdapModule = "part_023" =>
    /\ rRequests <= maxRedirects + 1
    /\ rRedirects <= maxRedirects + 1
    /\ rRedirects > maxRedirects =>
         rPc = "settled" /\ rPromise = Reject(Pending, "Too many redirects")
    /\ (rPromise.state = "rejected" /\ rPromise.value = "Too many redirects") =>
         rRedirects = maxRedirects + 1 /\ rRequests = maxRedirects + 1

C14_Witness ==
  /\ rdapModule = "part_023"
  /\ rPromise = Reject(Pending, "Too many redirects")
  /\ rRequests = maxRedirects + 1

\* C15: a lookup whose normalized domain is not valid returns at once with
\* no data, no provider response and the error "Invalid domain name"; no
\* provider is called, and the cache is neither read nor written.
C15_InvalidDomainReturnsAtOnce ==
  [][ (SvcStarts /\ ~isValidDomain(svcDomain')) =>
        /\ svcPc' = "done"
        /\ svcResult' = WhoisResult(svcDomain', FALSE, NullData, <<>>,
                                    <<"Invalid domain name">>)
        /\ \A p \in ProviderNames : task'[p].state = "off" /\ task'[p].calls = 0
        /\ ~svcCacheRead'
        /\ nodeCache' = nodeCache ]_vars

\* An invalid domain was refused while the cache held an entry.
C15_Witness ==
  /\ svcPc = "done"
  /\ ~isValidDomain(svcDomain)
  /\ svcResult.errors = <<"Invalid domain name">>
  /\ svcArgs.enabled # {}
  /\ nodeCache # <<>>

\* C20: lookupWhois never calls a provider that has already been called
\* RateLimit times in the current window.
C20_DispatchRespectsQuota ==
  \A p \in ProviderNames : task[p].calls <= RateLimit

\* The successful responses among those merged, in their order.
Successful == SelectSeq(mIn, LAMBDA r : r.success /\ r.data.present)
Supplied(value) == value # Undefined /\ value # ""
ScalarFields == {"domainName", "registrar"}
ArrayFields == {"nameServers", "status"}

\* C17: each scalar field of the merged data is the first non-empty value of
\* that field among the successful responses, in their order; a later
\* response never replaces it.
C17_ScalarFirstWins ==
  (mPc = "merged" /\ Len(Successful) > 0) =>
    \A f \in ScalarFields :
      LET suppliers == {k \in 1 .. Len(Successful) : Supplied(Successful[k].data[f])}
      IN  IF suppliers = {} THEN ~Supplied(mOut[f])
          ELSE \E k \in suppliers :
                 /\ \A j \in suppliers : k <= j
                 /\ mOut[f] = Successful[k].data[f]

C17_Witness ==
  /\ mPc = "merged"
  /\ Len(Successful) >= 2
  /\ Successful[1].data.registrar = "RegA"
  /\ Successful[2].data.registrar = "RegB"
  /\ ~Successful[1].data.nameServers.defined
  /\ mOut.registrar = "RegA"
  /\ mOut.nameServers.items = <<"ns1", "ns2">>

\* C18: the merged nameServers and status hold every entry of the
\* corresponding lists of the successful responses, each of them once.
C18_ArraysDedupedUnion ==
  (mPc = "merged" /\ Len(Successful) > 0) =>
    \A f \in ArrayFields :
      LET merged == mOut[f].items
      IN  /\ {merged[k] : k \in 1 .. Len(merged)}
               = UNION { {Successful[j].data[f].items[k] :
                            k \in 1 .. Len(Successful[j].data[f].items)} :
                         j \in 1 .. Len(Successful) }
          /\ \A k, j \in 1 .. Len(merged) : merged[k] = merged[j] => k = j

C18_Witness ==
  /\ mPc = "merged"
  /\ Len(Successful) >= 2
  /\ Successful[1].data.nameServers.items = <<"ns1", "ns2", "ns1">>
  /\ Successful[2].data.nameServers.items = <<"ns2", "ns3">>
  /\ mOut.nameServers.items = <<"ns1", "ns2", "ns3">>
  /\ mOut.status.items = <<"active", "locked">>

\* C19: the outcome of a query for which several providers were gone
\* through reports every provider that was attempted and failed, with its
\* error.
C19_OutcomeListsAttempts ==
  \A c \in Calls :
    pc[c] = "done" =>
      \A k \in 1 .. Len(attempts[c]) :
        attempts[c][k].result = "threw" =>
          attempts[c][k].error \in ReportedErrors(outcome[c])

\* Two queries that differ only in letter case or surrounding white space.
SameQuery(d1, d2) == trim(toLowerCase(d1)) = trim(toLowerCase(d2))

\* Call r of lookupWhoisWithCache starts in this step.
LwcStarts(r) == lwcPc[r] = "idle" /\ lwcPc'[r] # "idle"

\* C21: a query for which the cache holds a result, stored under the same
\* query or one that differs only in letter case or surrounding white space,
\* returns the stored result with cached = true and time 0, and no lookup is
\* made.
C21_CacheHitReturnsStored ==
  [][\A r \in CacheCalls, d \in Domains :
       (/\ LwcStarts(r)
        /\ SameQuery(d, lwcDomain'[r])
        /\ redis[CacheKey(lookupModule, d)].present)
       => /\ lwcPc'[r] = "done"
          /\ lwcReturned'[r] = Returned(redis[CacheKey(lookupModule, d)].value, 0, TRUE)
          /\ redis' = redis ]_vars

\* A query in another letter case was served from the entry of the first.
C21_Witness ==
  \E r \in CacheCalls :
    /\ lookupModule = "part_005"
    /\ lwcPc[r] = "done"
    /\ lwcDomain[r] = " Example.COM"
    /\ lwcReturned[r].cached
    /\ lwcReturned[r].time = 0
    /\ lwcReturned[r].status

\* The socket query has delivered a text that holds a not-found phrase.
NotFoundText ==
  /\ qProvider \in {"native", "tredis"}
  /\ sPromise.state = "resolved"
  /\ IncludesAny(toLowerCase(sPromise.value), NativeNotFoundPhrases)

\* C22: a registry text that holds a not-found phrase, in any letter case,
\* gives a failed response that the caller's classification of errors takes
\* for not-found, and not for another kind of failure.
C22_NotFoundClassified ==
  (qPc = "done" /\ NotFoundText) =>
    /\ ~qResult.response.success
    /\ isNotFoundError([error |-> qResult.response.error])
    /\ ~isTransientError([error |-> qResult.response.error])

C22_Witness ==
  /\ qPc = "done"
  /\ NotFoundText
  /\ qProvider = "tredis"
  /\ sPromise.value = "No match for domain\n"
  /\ isNotFoundError([error |-> qResult.response.error])

\* The lines of the delivered text that carry a registrar key, in order.
RegistrarLines ==
  LET lines == split(sPromise.value, "\n")
      kv(k) == IF qProvider = "tredis" THEN ParseLine(lines[k], {"**", "%"}, TRUE)
               ELSE ParseLine(lines[k], {"%", "#"}, FALSE)
  IN  [lines |-> lines,
       at    |-> {k \in 1 .. Len(lines) : ~kv(k).skip /\ kv(k).key \in RegistrarKeys},
       value |-> [k \in 1 .. Len(lines) |-> kv(k).value]]

\* The socket query has returned the parse of the text it received.
Parsed ==
  /\ qPc = "done"
  /\ qProvider \in {"native", "tredis"}
  /\ sPromise.state = "resolved"
  /\ qResult.response.success

\* C23: the parsers keep, for a single-valued field, the value of the first
\* line whose key matches it; a later line with the same key does not change
\* it.
C23_FirstLineWins ==
  (Parsed /\ RegistrarLines.at # {}) =>
    \E k \in RegistrarLines.at :
      /\ \A j \in RegistrarLines.at : k <= j
      /\ qResult.response.data.registrar = RegistrarLines.value[k]

C23_Witness ==
  /\ Parsed
  /\ qProvider = "tredis"
  /\ Cardinality(RegistrarLines.at) = 2
  /\ qResult.response.data.registrar = "RegA"

\* C24: network.cidr lists every entry of cidr0_cidrs as its prefix, the
\* v4prefix or for an IPv6 block the v6prefix, then "/" and its length.
C24_CidrRendersPrefix ==
  (cPc = "parsed" /\ cIn.defined) =>
    cOut = join([k \in 1 .. Len(cIn.items) |->
                   (IF cIn.items[k].v4prefix # Undefined THEN cIn.items[k].v4prefix
                    ELSE cIn.items[k].v6prefix)
                   \o "/" \o ToString(cIn.items[k].length)], ", ")

C24_Witness ==
  /\ cPc = "parsed"
  /\ cIn = Array(<<CidrEntry("93.184.216.0", Undefined, 24)>>)
  /\ cOut = "93.184.216.0/24"

NoRepeat(seq) == \A j, k \in 1 .. Len(seq) : seq[j] = seq[k] => j = k

\* C26: one execute call invokes the lookup of each provider at most once
\* and makes at most NProviders attempts, whatever the other calls do to the
\* pointer in between; an invocation of getNextProvider reads each provider
\* at most once and leaves the pointer in 0 .. NProviders - 1.
C26_AttemptsBounded ==
  /\ currentIndex \in 0 .. (NProviders - 1)
  /\ \A c \in Calls :
       /\ Len(attempts[c]) <= NProviders
       /\ NoRepeat([k \in 1 .. Len(attempts[c]) |-> attempts[c][k].provider])
       /\ iter[c] <= NProviders
  /\ \A tried \in SUBSET Providers :
       /\ NoRepeat(getNextProvider(tried).seen)
       /\ getNextProvider(tried).index \in 0 .. (NProviders - 1)

\* A call has tried every provider while the other call was in flight.
C26_Witness ==
  \E c, d \in Calls :
    /\ c # d
    /\ pc[d] = "lookup"
    /\ pc[c] = "done"
    /\ Len(attempts[c]) = NProviders
    /\ outcome[c].kind = "rejected"

\* C27: the cache of an enabled CacheService never holds more than maxKeys
\* keys, whatever set, delete and clear operations it serves; a set that
\* finds it at capacity first drops max(1, floor(keys / 10)) entries from
\* the front of the key list.
C27_KeysWithinMaxKeys ==
  /\ [](Len(nodeCache) <= kMax)
  /\ [][(kLast'.op = "set" /\ kOps' # kOps /\ Len(nodeCache) >= kMax) =>
          LET n       == Len(nodeCache)
              dropped == IF n \div 10 >= 1 THEN n \div 10 ELSE 1
          IN  nodeCache' = CachePut(SubSeq(nodeCache, dropped + 1, n),
                                    generateKey(kLast'.domain), StoredResult)]_vars

\* A set at capacity has dropped two entries of twenty.
C27_Witness ==
  /\ kMax = FullKeys
  /\ kLast = [op |-> "set", domain |-> "new1"]
  /\ Len(nodeCache) = FullKeys - 1
  /\ nodeCache[1].key = generateKey("d3")

\* C28: a call of ApiSelector.query sends at most two requests, the second
\* only after the first has failed and to another endpoint than the first;
\* when both fail the call returns a failure that carries the first
\* endpoint and the first error.
C28_AtMostOneFallback ==
  \A c \in SelCalls :
    LET q == selCall[c]
    IN  /\ Len(q.sent) <= 2
        /\ Len(q.sent) = 2 => (q.errorMessage # "" /\ q.sent[1] # q.sent[2])
        /\ (q.pc = "done" /\ q.fallbackError # "") =>
             q.result = [success |-> FALSE, usedApi |-> q.sent[1],
                         error |-> q.errorMessage]

\* Both requests of a call have failed, with different errors.
C28_Witness ==
  \E c \in SelCalls :
    /\ selCall[c].pc = "done"
    /\ Len(selCall[c].sent) = 2
    /\ selCall[c].fallbackError # ""
    /\ selCall[c].fallbackError # selCall[c].errorMessage

\* A request of this ip arrives at the route in this step.
Arrives(ip) ==
  /\ rLast'.flip # rLast.flip
  /\ rLast'.ip = ip
  /\ Len(rPending'[ip]) >= Len(rPending[ip])

C30_RateLimitAdmitsMax ==
  /\ [](\A ip \in Ips : hRate[ip].n <= RouteRateMax)
  /\ [](rLast.lookup => rLast.admitted)
  /\ [][\A ip \in Ips :
          (/\ Arrives(ip)
           /\ hRate[ip].start # -1
           /\ rNow <= hRate[ip].start + RouteRateWindow
           /\ hRate[ip].n = RouteRateMax) =>
            (~rLast'.admitted /\ rLast'.status = 429 /\ ~rLast'.lookup)]_vars

\* One ip has filled its window and is turned away while the other has
\* been served once.
C30_Witness ==
  /\ routeModule = "route.ts"
  /\ rLast.status = 429 /\ ~rLast.admitted
  /\ hRate[rLast.ip].n = RouteRateMax
  /\ \E ip \in Ips : ip # rLast.ip /\ hRate[ip].n = 1

====
